---- MODULE Spec2Model ----
(***************************************************************************)
(* Referendum tabulator and record state machine of politeiad.             *)
(*                                                                         *)
(* The referendum package (Referendum.CastVote, checkActive, GetResults,   *)
(* CreateReferendum, the process-wide AllReferendums map) and the daemon's *)
(* handlers (referendumCall, referendumVote, referendumResults,            *)
(* setUnvettedStatus, newRecord, updateUnvetted, updateVettedMetadata) are *)
(* translated from the source.  The git backend behind the                 *)
(* backend.Backend interface is not part of the sources; its status        *)
(* transition table and its metadata append are modelled from the          *)
(* specification (section 4.4 and 4.6).                                    *)
(*                                                                         *)
(* Every handler is one atomic action.  The clock is a variable that only  *)
(* moves forward.  A restart of the process empties AllReferendums, which  *)
(* lives in process memory only, and keeps the records of the backend.     *)
(***************************************************************************)
EXTENDS Integers, Sequences, FiniteSets, TLC

\* ---- bounds of the model ------------------------------------------------
MaxTime == 4
NumUsers == 3

\* v1.VotePeriod, in ticks of the model clock
VotePeriod == 2

\* the most commits the vetted branch holds
MaxCommits == 5

\* the most proposals the tests create, and the most seconds they sleep
MaxProposals == 3
MaxSleeps == 2

Tokens == {"t1"}
Users == 1..NumUsers

\* ---- types --------------------------------------------------------------
\* backend.MDStatusT
MDStatusT ==
    {"MDStatusInvalid", "MDStatusUnvetted", "MDStatusVetted",
     "MDStatusCensored", "MDStatusIterationUnvetted", "MDStatusReferendum",
     "MDStatusCensoredFinal", "MDStatusVettedFinal"}

\* v1.RecordStatusT
RecordStatusT ==
    {"RecordStatusInvalid", "RecordStatusNotFound", "RecordStatusNotReviewed",
     "RecordStatusCensored", "RecordStatusPublic",
     "RecordStatusUnreviewedChanges", "RecordStatusReferendum",
     "RecordStatusCensoredFinal", "RecordStatusVettedFinal"}

\* v1.VoteT
VoteT == {"NullVote", "Approve", "NotApprove"}

FinalStatuses == {"MDStatusVettedFinal", "MDStatusCensoredFinal"}

\* metadata stream ids of the tallies
ReferendumVotesForMDID == "VotesFor"
ReferendumVotesAgainstMDID == "VotesAgainst"
MDIDs == {ReferendumVotesForMDID, ReferendumVotesAgainstMDID}

VARIABLES
    now,             \* time.Now().Unix()
    records,         \* backend: token -> [status, md]
    AllReferendums,  \* referendum.AllReferendums: token -> Referendum
    last,            \* the last handler call and its reply
    callers,         \* history: identities that created a referendum, per token
    tabulated,       \* history: replies of the tabulating referendumResults calls, per token
    build,           \* gitbe: which revision of the anchor index is built
    gitLog,          \* gitbe: the commits of the vetted branch, oldest first
    lastAnchorFile,  \* gitbe: the record under LastAnchorKey
    unconfirmedFile, \* gitbe: the record under UnconfirmedKey
    anchorFiles,     \* gitbe: the anchor records, by hex Merkle root
    store,           \* politeiawww: the proposals of politeiad, by token
    inventory,       \* politeiawww: b.inventory, the sequence of each branch
    submitted,       \* history: the files submitted with each token
    wwwLast,         \* politeiawww: the last call and its reply
    codecVal,        \* database: the record a test writes, its kind and key
    db,              \* database: the files of the anchors directory
    codecRead,       \* database: the result of the last read
    inflight,        \* the referendumVote calls in flight, by goroutine
    oracle,          \* dcrtime: what the timestamp oracle knows of each root
    engine,          \* gitbe: the anchor engine's confirmation in progress
    views,           \* gitbe: the three views of the index as last read
    gitOut,          \* gitbe: the lines git log prints for a commit
    parsed           \* gitbe: what the parsers made of gitOut

\* the state of the daemon's handlers and the state of the git backend
daemonVars == <<now, records, AllReferendums, last, callers, tabulated>>
gitbeVars == <<build, gitLog, lastAnchorFile, unconfirmedFile, anchorFiles>>

wwwVars == <<store, inventory, submitted, wwwLast>>
codecVars == <<codecVal, db, codecRead>>
raceVars == <<inflight>>
engineVars == <<oracle, engine>>
indexVars == <<views, gitOut, parsed>>

vars == <<daemonVars, gitbeVars, wwwVars, codecVars, raceVars, engineVars, indexVars>>

\* ---- conversions --------------------------------------------------------
\* strconv.Itoa: the decimal digits of n, most significant first
RECURSIVE Itoa(_)
Itoa(n) == IF n < 10 THEN <<n>> ELSE Itoa(n \div 10) \o <<n % 10>>

\* strconv.Atoi on a string of decimal digits; -1 stands for the error
\* Atoi returns on the empty string
RECURSIVE AtoiAcc(_, _)
AtoiAcc(s, acc) ==
    IF s = <<>> THEN acc ELSE AtoiAcc(Tail(s), 10 * acc + Head(s))

Atoi(s) == IF s = <<>> THEN -1 ELSE AtoiAcc(s, 0)

convertBackendStatus(status) ==
    CASE status = "MDStatusInvalid" -> "RecordStatusInvalid"
      [] status = "MDStatusUnvetted" -> "RecordStatusNotReviewed"
      [] status = "MDStatusVetted" -> "RecordStatusPublic"
      [] status = "MDStatusCensored" -> "RecordStatusCensored"
      [] status = "MDStatusIterationUnvetted" -> "RecordStatusUnreviewedChanges"
      [] status = "MDStatusReferendum" -> "RecordStatusReferendum"
      [] status = "MDStatusCensoredFinal" -> "RecordStatusCensoredFinal"
      [] status = "MDStatusVettedFinal" -> "RecordStatusVettedFinal"
      [] OTHER -> "RecordStatusInvalid"

\* a conversion that also passes the referendum statuses through
convertFrontendStatus_All(status) ==
    CASE status = "RecordStatusInvalid" -> "MDStatusInvalid"
      [] status = "RecordStatusNotReviewed" -> "MDStatusUnvetted"
      [] status = "RecordStatusPublic" -> "MDStatusVetted"
      [] status = "RecordStatusCensored" -> "MDStatusCensored"
      [] status = "RecordStatusUnreviewedChanges" -> "MDStatusIterationUnvetted"
      [] status = "RecordStatusReferendum" -> "MDStatusReferendum"
      [] status = "RecordStatusCensoredFinal" -> "MDStatusCensoredFinal"
      [] status = "RecordStatusVettedFinal" -> "MDStatusVettedFinal"
      [] OTHER -> "MDStatusInvalid"

convertFrontendStatus(status) ==
    CASE status = "RecordStatusInvalid" -> "MDStatusInvalid"
      [] status = "RecordStatusNotReviewed" -> "MDStatusUnvetted"
      [] status = "RecordStatusPublic" -> "MDStatusVetted"
      [] status = "RecordStatusCensored" -> "MDStatusCensored"
      [] OTHER -> "MDStatusInvalid"

\* an empty Go map
EmptyMap == [x \in {} |-> 0]

\* ---- referendum package -------------------------------------------------
\* the zero value of Referendum, which indexing the map with a missing key yields
ZeroReferendum ==
    [startTime |-> 0, endTime |-> 0, isActive |-> FALSE, executed |-> FALSE,
     Votes |-> EmptyMap]

\* Referendum.checkActive at clock reading t: the value it returns
checkActive(r, t) == IF t > r.endTime THEN FALSE ELSE r.isActive

\* CastVote without the lookup of the identity in Votes
CastVoteErr_NoVotedCheck(r, user, t) ==
    IF ~checkActive(r, t) THEN "ReferendumClosed" ELSE "OK"

\* Referendum.CastVote at clock reading t: the error it returns
CastVoteErr(r, user, t) ==
    IF ~checkActive(r, t) THEN "ReferendumClosed"
    ELSE IF user \in DOMAIN r.Votes THEN "AlreadyVoted"
    ELSE "OK"

\* Referendum.CastVote at clock reading t: the vote map afterwards
CastVoteVotes(r, user, vote, t) ==
    IF CastVoteErr(r, user, t) = "OK"
    THEN [u \in DOMAIN r.Votes \cup {user} |->
             IF u = user THEN vote ELSE r.Votes[u]]
    ELSE r.Votes

\* results[v] after the loop of Referendum.GetResults over the voters in S
RECURSIVE CountLoop(_, _, _)
CountLoop(votes, S, v) ==
    IF S = {} THEN 0
    ELSE LET u == CHOOSE x \in S : TRUE
         IN  (IF votes[u] = v THEN 1 ELSE 0) + CountLoop(votes, S \ {u}, v)

CountVotes(votes, v) == CountLoop(votes, DOMAIN votes, v)

\* GetResults that lets a tie pass
GetResults_TiePasses(r, t) ==
    IF checkActive(r, t)
    THEN [err |-> "ReferendumActive", approve |-> 0, notApprove |-> 0,
          status |-> "MDStatusInvalid"]
    ELSE [err |-> "OK",
          approve |-> CountVotes(r.Votes, "Approve"),
          notApprove |-> CountVotes(r.Votes, "NotApprove"),
          status |-> IF CountVotes(r.Votes, "Approve")
                          >= CountVotes(r.Votes, "NotApprove")
                     THEN "MDStatusVettedFinal"
                     ELSE "MDStatusCensoredFinal"]

\* Referendum.GetResults at clock reading t
GetResults(r, t) ==
    IF checkActive(r, t)
    THEN [err |-> "ReferendumActive", approve |-> 0, notApprove |-> 0,
          status |-> "MDStatusInvalid"]
    ELSE [err |-> "OK",
          approve |-> CountVotes(r.Votes, "Approve"),
          notApprove |-> CountVotes(r.Votes, "NotApprove"),
          status |-> IF CountVotes(r.Votes, "Approve")
                          > CountVotes(r.Votes, "NotApprove")
                     THEN "MDStatusVettedFinal"
                     ELSE "MDStatusCensoredFinal"]

\* CreateReferendum with clock readings t1 (startTime) and t2 (endTime and
\* the activity check of the caller's NullVote)
CreateReferendum(user, t1, t2) ==
    LET ref == [startTime |-> t1, endTime |-> t2 + VotePeriod,
                isActive |-> TRUE, executed |-> FALSE, Votes |-> EmptyMap]
    IN  [ref EXCEPT !.Votes = CastVoteVotes(ref, user, "NullVote", t2)]

\* ---- backend ------------------------------------------------------------
NoMetadata == [id \in MDIDs |-> <<>>]

\* the rows of the status transition table that SetUnvettedStatus serves
StatusTransitions(from) ==
    CASE from \in {"MDStatusUnvetted", "MDStatusIterationUnvetted"} ->
             {"MDStatusVetted", "MDStatusCensored"}
      [] from = "MDStatusCensored" -> {"MDStatusReferendum"}
      [] from = "MDStatusReferendum" -> FinalStatuses
      [] OTHER -> {}

\* backend.GetUnvetted: the record is on the unvetted branch
UnvettedFound(tok) ==
    tok \in DOMAIN records /\ records[tok].status # "MDStatusVetted"

\* backend.GetVetted: the record is on the vetted branch
VettedFound(tok) ==
    tok \in DOMAIN records /\ records[tok].status = "MDStatusVetted"

\* backend.SetUnvettedStatus: the error it returns
SetUnvettedStatusErr(tok, status, fail) ==
    IF tok \notin DOMAIN records THEN "RecordNotFound"
    ELSE IF status \notin StatusTransitions(records[tok].status)
         THEN "InvalidTransition"
    ELSE IF fail THEN "InternalError"
    ELSE "OK"

\* backend.SetUnvettedStatus: the records afterwards; mdAppend is a function
\* from stream ids to payloads, appended to the streams of the record
SetUnvettedStatusRecords(tok, status, mdAppend, fail) ==
    IF SetUnvettedStatusErr(tok, status, fail) = "OK"
    THEN [records EXCEPT ![tok] =
             [status |-> status,
              md |-> [id \in MDIDs |-> records[tok].md[id] \o mdAppend[id]]]]
    ELSE records

\* ---- gitbe: bytes, digests and the Merkle root ---------------------------
\* the revisions of the anchor index in the sources: "log" derives every
\* view from the git log, "hybrid" derives LastAnchor and UnconfirmedAnchor
\* from the log and keeps the anchor records in files
Builds == {"log", "hybrid"}

\* A byte slice is its content with the way it was made: hex.DecodeString(s)
\* gives the raw bytes that s spells, []byte(s) gives the characters of s.
hexDecodeString(s) == [enc |-> "raw", s |-> s]
bytesOfString(s) == [enc |-> "text", s |-> s]

\* hex.EncodeToString of raw bytes
hexEncodeToString(b) == b.s

\* a nil byte slice, the value of the fields of an empty LastAnchor
NilBytes == [enc |-> "nil", s |-> ""]

\* extendSHA1: a 20-byte git hash padded with zero bytes to sha256.Size
extendSHA1(b) == [enc |-> b.enc, s |-> b.s \o "00"]

\* the hash git gives the n-th commit of the branch, in hex; the hashes do
\* not grow with n
commitHash(n) == ToString((3 * n) % 7)

\* the digest under which a commit takes part in an anchor
commitDigest(hash) == extendSHA1(hexDecodeString(hash))

\* the bytes fed to SHA-256: the characters of a text differ from the raw
\* bytes they spell
hashInput(b) == IF b.enc = "text" THEN "'" \o b.s \o "'" ELSE b.s

\* SHA256(left || right), an inner node of the Merkle tree
sha256Pair(l, r) ==
    [enc |-> "raw", s |-> "(" \o hashInput(l) \o "," \o hashInput(r) \o ")"]

\* one level of the tree: neighbours are paired, the last element of a level
\* of odd length is paired with itself
merkleLevel(level) ==
    [i \in 1..((Len(level) + 1) \div 2) |->
        sha256Pair(level[2 * i - 1],
                   IF 2 * i <= Len(level) THEN level[2 * i]
                   ELSE level[2 * i - 1])]

\* merkle.Root: the root of the tree over the digests in the given order
RECURSIVE MerkleRoot(_)
MerkleRoot(digests) ==
    IF Len(digests) = 0 THEN NilBytes
    ELSE IF Len(digests) = 1 THEN digests[1]
    ELSE MerkleRoot(merkleLevel(digests))

\* the place of a digest in byte order: digests of one length compare as
\* the numbers they spell
digestOrd(d) == CHOOSE k \in 0..6 : extendSHA1(hexDecodeString(ToString(k))).s = d.s

\* sort(D): ascending byte order
sortDigests(digests) ==
    SortSeq(digests, LAMBDA a, b : digestOrd(a) < digestOrd(b))

\* newAnchorRecord: the anchor record and the Merkle root of the digests;
\* t is time.Now().Unix(); the fields the literal does not name are zero
newAnchorRecord(type, digests, messages, t) ==
    IF Len(digests) # Len(messages)
    THEN [err |-> "invalid digest and messages length"]
    ELSE IF type = "AnchorInvalid"
    THEN [err |-> "invalid anchor type"]
    ELSE [err |-> "",
          anchor |-> [Type |-> type, Digests |-> digests,
                      Messages |-> messages, Time |-> t,
                      ChainTimestamp |-> 0, Transaction |-> ""],
          merkle |-> MerkleRoot(digests)]

\* ---- gitbe: the anchor index ---------------------------------------------
\* A GitCommit is [Hash, Time, Message]; Message is the sequence of the
\* lines of the commit message and a line is the sequence of its
\* whitespace-delimited words (strings.Fields), the blank line being <<>>.
markerAnchor == "anchor"
markerAnchorConfirmation == <<"anchor", "confirmation">>

\* regexAnchor.MatchString: the marker and one more word at least
regexAnchor(line) == Len(line) >= 2 /\ line[1] = markerAnchor

\* regexAnchor.FindStringSubmatch(line)[1]
regexAnchorSubmatch(line) == line[2]

\* regexAnchorConfirmation.MatchString: the log revision wants the marker
\* alone on the line, the hybrid revision wants a word after the marker
regexAnchorConfirmation(bld, line) ==
    IF bld = "log"
    THEN line = markerAnchorConfirmation
    ELSE /\ Len(line) >= 3
         /\ SubSeq(line, 1, 2) = markerAnchorConfirmation

\* getCommitsFromLog: git log lists the newest commit first
getCommitsFromLog(log) == [i \in 1..Len(log) |-> log[Len(log) + 1 - i]]

\* the Merkle root a confirmation commit names: the first word of the line
\* after the blank line
confirmedMerkle(commit) == commit.Message[3][1]

\* the root taken from the marker line instead of the line after the blank
\* line
confirmedAnchors_MarkerLine(bld, commits) ==
    {commits[i].Message[1][2] :
        i \in {j \in 1..Len(commits) :
                 regexAnchorConfirmation(bld, commits[j].Message[1])}}

\* the set confirmedAnchors of listAnchorRecords and
\* readUnconfirmedAnchorRecord
confirmedAnchors(bld, commits) ==
    {confirmedMerkle(commits[i]) :
        i \in {j \in 1..Len(commits) :
                 regexAnchorConfirmation(bld, commits[j].Message[1])}}

\* the commits the else-branch of the scan takes for anchor commits
anchorCommits(bld, commits) ==
    SelectSeq(commits,
              LAMBDA c : /\ ~regexAnchorConfirmation(bld, c.Message[1])
                         /\ regexAnchor(c.Message[1]))

\* extractAnchorDigests: the lines between the blank line and the last line
extractAnchorDigests(commit) ==
    LET body == SubSeq(commit.Message, 3, Len(commit.Message) - 1)
    IN  [Digests |-> [i \in 1..Len(body) |-> bytesOfString(body[i][1])],
         Messages |-> [i \in 1..Len(body) |-> Tail(body[i])]]

\* listAnchorRecords of the log revision: the anchors and their keys; the
\* literal names Type, Digests, Messages and Time, so ChainTimestamp and
\* Transaction are zero
listAnchorRecords(commits) ==
    LET ac == anchorCommits("log", commits)
        confirmed == confirmedAnchors("log", commits)
    IN  [i \in 1..Len(ac) |->
            [key |-> regexAnchorSubmatch(ac[i].Message[1]),
             anchor |->
                [Type |-> IF regexAnchorSubmatch(ac[i].Message[1]) \in confirmed
                          THEN "AnchorVerified" ELSE "AnchorUnverified",
                 Digests |-> extractAnchorDigests(ac[i]).Digests,
                 Messages |-> extractAnchorDigests(ac[i]).Messages,
                 Time |-> ac[i].Time,
                 ChainTimestamp |-> 0, Transaction |-> ""]]]

\* the empty LastAnchor
NoLastAnchor == [Last |-> NilBytes, Time |-> 0, Merkle |-> NilBytes]

\* readLastAnchorRecord: the log revision takes Last from the hash of the
\* anchor commit, the hybrid revision from the first word of the line after
\* the blank line
readLastAnchorRecord(bld, commits) ==
    LET ac == anchorCommits(bld, commits)
        merkleStr == regexAnchorSubmatch(ac[1].Message[1])
    IN  IF Len(ac) = 0 THEN NoLastAnchor
        ELSE IF bld = "log"
        THEN [Last |-> extendSHA1(hexDecodeString(ac[1].Hash)),
              Time |-> ac[1].Time,
              Merkle |-> hexDecodeString(merkleStr)]
        ELSE [Last |-> bytesOfString(ac[1].Message[3][1]),
              Time |-> ac[1].Time,
              Merkle |-> bytesOfString(merkleStr)]

\* the slice allAnchors of readUnconfirmedAnchorRecord: the hybrid revision
\* also appends the root a confirmation names
allAnchors(bld, commits) ==
    LET seen == SelectSeq(commits,
                    LAMBDA c : \/ regexAnchorConfirmation(bld, c.Message[1])
                               \/ regexAnchor(c.Message[1]))
    IN  IF bld = "log"
        THEN [i \in 1..Len(anchorCommits(bld, commits)) |->
                regexAnchorSubmatch(anchorCommits(bld, commits)[i].Message[1])]
        ELSE [i \in 1..Len(seen) |->
                IF regexAnchorConfirmation(bld, seen[i].Message[1])
                THEN confirmedMerkle(seen[i])
                ELSE regexAnchorSubmatch(seen[i].Message[1])]

\* readUnconfirmedAnchorRecord: the Merkles of the record
readUnconfirmedAnchorRecord(bld, commits) ==
    LET open == SelectSeq(allAnchors(bld, commits),
                    LAMBDA m : m \notin confirmedAnchors(bld, commits))
    IN  [i \in 1..Len(open) |->
            IF bld = "log" THEN hexDecodeString(open[i])
            ELSE bytesOfString(open[i])]

\* ---- gitbe: the records of the database and their JSON encoding -----------
\* A []byte or a slice is nil or holds elements; bytes are scaled to 4 bits
\* and the base64 alphabet to 3 bits, so that 3 bytes make 4 characters as in
\* base64.StdEncoding; a string is a sequence of units, of which InvalidByte
\* is a byte that is no valid UTF-8
MaxBytesLen == 3
MaxStringLen == 2
MaxListLen == 2

ByteValues == {5, 15}
InvalidByte == "xFF"
ReplacementRune == "uFFFD"
StringUnits == {"a", InvalidByte}

NilSlice == [nil |-> TRUE, v |-> <<>>]
Slice(seq) == [nil |-> FALSE, v |-> seq]

SeqsUpTo(S, n) == UNION {[1..k -> S] : k \in 0..n}

ByteSlices == {NilSlice} \cup {Slice(s) : s \in SeqsUpTo(ByteValues, MaxBytesLen)}
GoStrings == SeqsUpTo(StringUnits, MaxStringLen)

\* the lists of digests and of messages an Anchor can hold, and the lists of
\* Merkle roots of an UnconfirmedAnchor
ShortByteSlices == {b \in ByteSlices : Len(b.v) <= 1}
DigestLists ==
    {NilSlice} \cup {Slice(s) : s \in SeqsUpTo(ShortByteSlices, MaxListLen)}
MessageLists ==
    {NilSlice} \cup {Slice(s) : s \in SeqsUpTo(GoStrings, MaxListLen)}
MerkleLists ==
    {NilSlice} \cup {Slice(s) : s \in SeqsUpTo(ByteSlices, MaxListLen)}

\* the records the database can be given
AnchorValues ==
    [Type : {"AnchorUnverified", "AnchorVerified"}, Digests : DigestLists,
     Messages : MessageLists, Time : {7}, ChainTimestamp : {0, 9},
     Transaction : GoStrings]
LastAnchorValues == [Last : ByteSlices, Time : {0, 7}, Merkle : ByteSlices]
UnconfirmedAnchorValues == [Merkles : MerkleLists]

\* the padding character of base64
Pad == 8

\* base64.StdEncoding.EncodeToString, as json.Marshal applies it to a []byte
RECURSIVE base64Encode(_)
base64Encode(b) ==
    IF Len(b) = 0 THEN <<>>
    ELSE IF Len(b) = 1
    THEN LET n == b[1] * 4 IN <<n \div 8, n % 8, Pad, Pad>>
    ELSE IF Len(b) = 2
    THEN LET n == (b[1] * 16 + b[2]) * 2
         IN  <<n \div 64, (n \div 8) % 8, n % 8, Pad>>
    ELSE LET n == b[1] * 256 + b[2] * 16 + b[3]
         IN  <<n \div 512, (n \div 64) % 8, (n \div 8) % 8, n % 8>>
             \o base64Encode(SubSeq(b, 4, Len(b)))

\* base64.StdEncoding.DecodeString, as json.Unmarshal applies it
RECURSIVE base64Decode(_)
base64Decode(c) ==
    IF Len(c) = 0 THEN <<>>
    ELSE IF c[3] = Pad
    THEN <<(c[1] * 8 + c[2]) \div 4>>
    ELSE IF c[4] = Pad
    THEN LET m == (c[1] * 64 + c[2] * 8 + c[3]) \div 2
         IN  <<m \div 16, m % 16>>
    ELSE LET n == c[1] * 512 + c[2] * 64 + c[3] * 8 + c[4]
         IN  <<n \div 256, (n \div 16) % 16, n % 16>>
             \o base64Decode(SubSeq(c, 5, Len(c)))

\* the JSON values: null, a number, a string, an array
jsonNull == [kind |-> "null", v |-> <<>>]
jsonNumber(n) == [kind |-> "number", v |-> <<n>>]
jsonString(s) == [kind |-> "string", v |-> s]
jsonArray(a) == [kind |-> "array", v |-> a]

\* json.Marshal of a string: invalid UTF-8 is replaced by U+FFFD
marshalString(s) ==
    jsonString([i \in 1..Len(s) |->
                   IF s[i] = InvalidByte THEN ReplacementRune ELSE s[i]])

\* json.Marshal of a []byte: null for nil, else the base64 string
marshalBytes(b) ==
    IF b.nil THEN jsonNull ELSE jsonString(base64Encode(b.v))

\* json.Marshal of a [][]byte and of a []string
marshalByteSlices(d) ==
    IF d.nil THEN jsonNull
    ELSE jsonArray([i \in 1..Len(d.v) |-> marshalBytes(d.v[i])])

marshalStrings(m) ==
    IF m.nil THEN jsonNull
    ELSE jsonArray([i \in 1..Len(m.v) |-> marshalString(m.v[i])])

\* json.Unmarshal into the zero value of each type: null leaves it nil
unmarshalBytes(j) ==
    IF j.kind = "null" THEN NilSlice ELSE Slice(base64Decode(j.v))

unmarshalByteSlices(j) ==
    IF j.kind = "null" THEN NilSlice
    ELSE Slice([i \in 1..Len(j.v) |-> unmarshalBytes(j.v[i])])

unmarshalStrings(j) ==
    IF j.kind = "null" THEN NilSlice
    ELSE Slice([i \in 1..Len(j.v) |-> j.v[i].v])

\* AnchorType is a uint32
anchorTypeNumber(t) ==
    CASE t = "AnchorInvalid" -> 0
      [] t = "AnchorUnverified" -> 1
      [] t = "AnchorVerified" -> 2

anchorTypeOfNumber(n) ==
    CASE n = 0 -> "AnchorInvalid"
      [] n = 1 -> "AnchorUnverified"
      [] n = 2 -> "AnchorVerified"

\* encodeAnchor and DecodeAnchor
encodeAnchor(anchor) ==
    [Type |-> jsonNumber(anchorTypeNumber(anchor.Type)),
     Digests |-> marshalByteSlices(anchor.Digests),
     Messages |-> marshalStrings(anchor.Messages),
     Time |-> jsonNumber(anchor.Time),
     ChainTimestamp |-> jsonNumber(anchor.ChainTimestamp),
     Transaction |-> marshalString(anchor.Transaction)]

DecodeAnchor(payload) ==
    [Type |-> anchorTypeOfNumber(payload.Type.v[1]),
     Digests |-> unmarshalByteSlices(payload.Digests),
     Messages |-> unmarshalStrings(payload.Messages),
     Time |-> payload.Time.v[1],
     ChainTimestamp |-> payload.ChainTimestamp.v[1],
     Transaction |-> payload.Transaction.v]

\* encodeLastAnchor and DecodeLastAnchor
encodeLastAnchor(lastAnchor) ==
    [Last |-> marshalBytes(lastAnchor.Last),
     Time |-> jsonNumber(lastAnchor.Time),
     Merkle |-> marshalBytes(lastAnchor.Merkle)]

DecodeLastAnchor(payload) ==
    [Last |-> unmarshalBytes(payload.Last),
     Time |-> payload.Time.v[1],
     Merkle |-> unmarshalBytes(payload.Merkle)]

\* encodeUnconfirmedAnchor and DecodeUnconfirmedAnchor
encodeUnconfirmedAnchor(unconfirmed) ==
    [Merkles |-> marshalByteSlices(unconfirmed.Merkles)]

DecodeUnconfirmedAnchor(payload) ==
    [Merkles |-> unmarshalByteSlices(payload.Merkles)]

\* the files of the anchors directory; NoFile stands for a file that is not
\* there
NoFile == <<>>
EmptyDatabase ==
    [lastanchor |-> NoFile, unconfirmed |-> NoFile, anchors |-> EmptyMap]

\* hex.EncodeToString of a key, the name of the file of an Anchor record
anchorFilename(key) ==
    [i \in 1..(2 * Len(key)) |->
        IF i % 2 = 1 THEN key[(i + 1) \div 2] \div 4 ELSE key[i \div 2] % 4]

\* the zero value LastAnchor{} and UnconfirmedAnchor{}
ZeroLastAnchor == [Last |-> NilSlice, Time |-> 0, Merkle |-> NilSlice]
ZeroUnconfirmedAnchor == [Merkles |-> NilSlice]

\* the Merkle roots the records are filed under
AnchorKeys == {<<5, 15>>, <<15, 5>>}

\* before a test has chosen its record
NoCodecVal == [kind |-> "none", key |-> <<>>, value |-> <<>>]

\* the result of a read: the record, or the error of a missing file
ReadResult(written, err, value) ==
    <<[written |-> written, err |-> err, value |-> value]>>

\* ---- goroutines of the request handlers --------------------------------
\* the goroutines that serve referendumVote requests at the same time
Threads == {1, 2}

\* a goroutine that serves no request
IdleCall ==
    [pc |-> "idle", token |-> "t1", user |-> 0, vote |-> "NullVote",
     res |-> ""]

\* the anchor engine between two confirmations, with the result of its
\* last call of the oracle
IdleEngine == [pc |-> "idle", root |-> "", tx |-> "", chainTime |-> 0,
               call |-> "none", res |-> ""]

\* the views of the index before they are read, and the parsers before
\* they ran
NoViews == [read |-> FALSE, listing |-> <<>>, last |-> <<>>,
            unconfirmed |-> <<>>]
NoParse == [ran |-> FALSE, err |-> "", lastErr |-> "", Digests |-> <<>>,
            Messages |-> <<>>]

\* ---- replies ------------------------------------------------------------
Reply(op, tok, user, res) ==
    [op |-> op, token |-> tok, user |-> user, res |-> res,
     votesFor |-> 0, votesAgainst |-> 0, status |-> "RecordStatusInvalid",
     req |-> "", path |-> ""]

Init ==
    /\ now = 0
    /\ records = EmptyMap
    /\ AllReferendums = EmptyMap
    /\ last = Reply("none", "t1", 0, "OK")
    /\ callers = [tok \in Tokens |-> {}]
    /\ tabulated = [tok \in Tokens |-> <<>>]
    /\ build = "log"
    /\ gitLog = <<>>
    /\ lastAnchorFile = NoLastAnchor
    /\ unconfirmedFile = <<>>
    /\ anchorFiles = EmptyMap
    /\ store = EmptyMap
    /\ inventory = [b \in {"vetted", "unvetted"} |-> <<>>]
    /\ submitted = EmptyMap
    /\ wwwLast = [op |-> "none", token |-> 0, code |-> "OK", files |-> <<>>]
    /\ codecVal = NoCodecVal
    /\ db = EmptyDatabase
    /\ codecRead = <<>>
    /\ inflight = [th \in Threads |-> IdleCall]
    /\ oracle = EmptyMap
    /\ engine = IdleEngine
    /\ views = NoViews
    /\ gitOut = <<>>
    /\ parsed = NoParse

\* ---- handlers -----------------------------------------------------------
\* a map with key k set to v
MapSet(m, k, v) == [x \in DOMAIN m \cup {k} |-> IF x = k THEN v ELSE m[x]]

\* politeia.newRecord: backend.New assigns a fresh token and commits the
\* record to the unvetted branch with status Unvetted
newRecord(tok) ==
    /\ tok \notin DOMAIN records
    /\ records' = MapSet(records, tok,
                         [status |-> "MDStatusUnvetted", md |-> NoMetadata])
    /\ last' = Reply("newRecord", tok, 0, "OK")
    /\ UNCHANGED <<now, AllReferendums, callers, tabulated, gitbeVars, wwwVars, codecVars, raceVars, engineVars, indexVars>>

\* backend.UpdateUnvettedRecord: the error it returns
UpdateUnvettedErr(tok, changes, fail) ==
    IF tok \notin DOMAIN records THEN "RecordNotFound"
    ELSE IF records[tok].status
              \notin {"MDStatusUnvetted", "MDStatusIterationUnvetted"}
         THEN "InvalidTransition"
    ELSE IF ~changes THEN "NoChanges"
    ELSE IF fail THEN "InternalError"
    ELSE "OK"

\* politeia.updateUnvetted
updateUnvetted(tok, changes, fail) ==
    /\ records' =
         IF UpdateUnvettedErr(tok, changes, fail) = "OK"
         THEN [records EXCEPT ![tok].status = "MDStatusIterationUnvetted"]
         ELSE records
    /\ last' = Reply("updateUnvetted", tok, 0,
                     UpdateUnvettedErr(tok, changes, fail))
    /\ UNCHANGED <<now, AllReferendums, callers, tabulated, gitbeVars, wwwVars, codecVars, raceVars, engineVars, indexVars>>

\* politeia.updateVettedMetadata: metadata-only change of a vetted record
updateVettedMetadata(tok, changes, fail) ==
    /\ last' = Reply("updateVettedMetadata", tok, 0,
                     IF ~VettedFound(tok) THEN "RecordNotFound"
                     ELSE IF ~changes THEN "NoChanges"
                     ELSE IF fail THEN "InternalError"
                     ELSE "OK")
    /\ UNCHANGED <<now, records, AllReferendums, callers, tabulated, gitbeVars, wwwVars, codecVars, raceVars, engineVars, indexVars>>

\* politeia.getUnvetted: a missing token is answered with status NotFound,
\* any other error of the backend as a server error
getUnvetted(tok, fail) ==
    /\ last' = IF ~UnvettedFound(tok)
               THEN [Reply("getUnvetted", tok, 0, "RecordNotFound") EXCEPT
                       !.status = "RecordStatusNotFound"]
               ELSE IF fail
               THEN Reply("getUnvetted", tok, 0, "InternalError")
               ELSE [Reply("getUnvetted", tok, 0, "OK") EXCEPT
                       !.status = convertBackendStatus(records[tok].status)]
    /\ UNCHANGED <<now, records, AllReferendums, callers, tabulated, gitbeVars, wwwVars, codecVars, raceVars, engineVars, indexVars>>

\* politeia.getVetted: as getUnvetted, but the log line after the branches
\* reads bpr.RecordMetadata.Status, and bpr is nil for a missing token
getVetted(tok, fail) ==
    /\ last' = IF ~VettedFound(tok)
               THEN Reply("getVetted", tok, 0, "Panic")
               ELSE IF fail
               THEN Reply("getVetted", tok, 0, "InternalError")
               ELSE [Reply("getVetted", tok, 0, "OK") EXCEPT
                       !.status = convertBackendStatus(records[tok].status)]
    /\ UNCHANGED <<now, records, AllReferendums, callers, tabulated, gitbeVars, wwwVars, codecVars, raceVars, engineVars, indexVars>>

\* politeia.setUnvettedStatus: the administrative route; apiStatus is the
\* v1 status of the request
setUnvettedStatus(tok, apiStatus, fail) ==
    LET status == convertFrontendStatus(apiStatus)
        err == SetUnvettedStatusErr(tok, status, fail)
    IN  /\ records' = SetUnvettedStatusRecords(tok, status, NoMetadata, fail)
        /\ last' = [Reply("setUnvettedStatus", tok, 0, err) EXCEPT
                      !.req = apiStatus,
                      !.status = IF err = "OK"
                                 THEN convertBackendStatus(status)
                                 ELSE "RecordStatusInvalid"]
        /\ UNCHANGED <<now, AllReferendums, callers, tabulated, gitbeVars, wwwVars, codecVars, raceVars, engineVars, indexVars>>

\* referendumCall without the test of the record's status
referendumCallCheck_AnyStatus(tok) ==
    IF ~UnvettedFound(tok) THEN "RecordNotFound" ELSE "OK"

\* politeia.referendumCall up to its call of the backend: the reply of an
\* early return, "OK" when it goes on to CreateReferendum
referendumCallCheck(tok) ==
    IF ~UnvettedFound(tok) THEN "RecordNotFound"
    ELSE IF convertBackendStatus(records[tok].status) # "RecordStatusCensored"
         THEN "NotCensored"
    ELSE "OK"

\* politeia.referendumCall; t2 is the clock reading after startTime was taken
referendumCall(tok, user, t2, fail) ==
    LET check == referendumCallCheck(tok)
        err == SetUnvettedStatusErr(tok, "MDStatusReferendum", fail)
    IN  /\ t2 \in {now, now + 1}
        /\ t2 <= MaxTime
        /\ IF check # "OK"
           THEN /\ last' = Reply("referendumCall", tok, user, check)
                /\ UNCHANGED <<now, records, AllReferendums, callers>>
           ELSE /\ AllReferendums' =
                     MapSet(AllReferendums, tok, CreateReferendum(user, now, t2))
                /\ now' = t2
                /\ callers' = [callers EXCEPT ![tok] = @ \cup {user}]
                /\ records' = SetUnvettedStatusRecords(
                                  tok, "MDStatusReferendum", NoMetadata, fail)
                /\ last' = [Reply("referendumCall", tok, user, err) EXCEPT
                              !.status = IF err = "OK"
                                         THEN "RecordStatusReferendum"
                                         ELSE "RecordStatusInvalid"]
        /\ UNCHANGED <<tabulated, gitbeVars, wwwVars, codecVars, raceVars, engineVars, indexVars>>

\* politeia.referendumVote: ref is a copy of the map's entry that shares its
\* vote map, so the vote reaches the map and the copy's isActive does not
referendumVote(tok, user, vote) ==
    /\ IF tok \notin DOMAIN AllReferendums
       THEN /\ last' = Reply("referendumVote", tok, user, "ReferendumNotFound")
            /\ UNCHANGED AllReferendums
       ELSE LET ref == AllReferendums[tok]
            IN  /\ AllReferendums' =
                     [AllReferendums EXCEPT
                        ![tok].Votes = CastVoteVotes(ref, user, vote, now)]
                /\ last' = [Reply("referendumVote", tok, user,
                                  CastVoteErr(ref, user, now)) EXCEPT
                              !.status = "RecordStatusReferendum"]
    /\ UNCHANGED <<now, records, callers, tabulated, gitbeVars, wwwVars, codecVars, raceVars, engineVars, indexVars>>

\* the two payloads stored under each other's id
votesMetadata_Swapped(res) ==
    [id \in MDIDs |-> IF id = ReferendumVotesForMDID
                      THEN Itoa(res.notApprove) ELSE Itoa(res.approve)]

\* the metadata streams referendumResults appends
votesMetadata(res) ==
    [id \in MDIDs |-> IF id = ReferendumVotesForMDID
                      THEN Itoa(res.approve) ELSE Itoa(res.notApprove)]

\* the branch taken for VettedFinal only
resultsFromMetadata_VettedOnly(tok) ==
    /\ UnvettedFound(tok)
    /\ records[tok].status = "MDStatusVettedFinal"
    /\ records[tok].md[ReferendumVotesForMDID] # <<>>
    /\ records[tok].md[ReferendumVotesAgainstMDID] # <<>>

\* politeia.referendumResults, the branch that answers from the metadata of
\* a record whose status is final
resultsFromMetadata(tok) ==
    /\ UnvettedFound(tok)
    /\ records[tok].status \in FinalStatuses
    /\ records[tok].md[ReferendumVotesForMDID] # <<>>
    /\ records[tok].md[ReferendumVotesAgainstMDID] # <<>>

\* politeia.referendumResults
referendumResults(tok, fail) ==
    LET ref == IF tok \in DOMAIN AllReferendums
               THEN AllReferendums[tok] ELSE ZeroReferendum
        res == GetResults(ref, now)
        err == SetUnvettedStatusErr(tok, res.status, fail)
    IN  IF ~UnvettedFound(tok)
        THEN \* bpr is nil and reading its status panics
             /\ last' = Reply("referendumResults", tok, 0, "Panic")
             /\ UNCHANGED <<now, records, AllReferendums, callers, tabulated, gitbeVars, wwwVars, codecVars, raceVars, engineVars, indexVars>>
        ELSE IF resultsFromMetadata(tok)
        THEN /\ last' = [Reply("referendumResults", tok, 0, "OK") EXCEPT
                           !.path = "metadata",
                           !.votesFor =
                               Atoi(records[tok].md[ReferendumVotesForMDID]),
                           !.votesAgainst =
                               Atoi(records[tok].md[ReferendumVotesAgainstMDID]),
                           !.status =
                               convertBackendStatus(records[tok].status)]
             /\ UNCHANGED <<now, records, AllReferendums, callers, tabulated, gitbeVars, wwwVars, codecVars, raceVars, engineVars, indexVars>>
        ELSE IF res.err # "OK"
        THEN /\ last' = [Reply("referendumResults", tok, 0, res.err) EXCEPT
                           !.path = "tabulate"]
             /\ UNCHANGED <<now, records, AllReferendums, callers, tabulated, gitbeVars, wwwVars, codecVars, raceVars, engineVars, indexVars>>
        ELSE /\ records' = SetUnvettedStatusRecords(
                               tok, res.status, votesMetadata(res), fail)
             /\ last' = IF err = "OK"
                        THEN [Reply("referendumResults", tok, 0, "OK") EXCEPT
                                !.path = "tabulate",
                                !.votesFor = res.approve,
                                !.votesAgainst = res.notApprove,
                                !.status = convertBackendStatus(res.status)]
                        ELSE [Reply("referendumResults", tok, 0, err) EXCEPT
                                !.path = "tabulate",
                                !.req = convertBackendStatus(res.status)]
             /\ tabulated' =
                  IF err = "OK"
                  THEN [tabulated EXCEPT ![tok] =
                          Append(@, <<res.approve, res.notApprove,
                                      convertBackendStatus(res.status)>>)]
                  ELSE tabulated
             /\ UNCHANGED <<now, AllReferendums, callers, gitbeVars, wwwVars, codecVars, raceVars, engineVars, indexVars>>

\* ---- the clock and the process -------------------------------------------
Tick ==
    /\ now < MaxTime
    /\ now' = now + 1
    /\ last' = Reply("Tick", "t1", 0, "OK")
    /\ UNCHANGED <<records, AllReferendums, callers, tabulated, gitbeVars, wwwVars, codecVars, raceVars, engineVars, indexVars>>

\* a restart of the daemon: AllReferendums is rebuilt empty by its initialiser
Restart ==
    /\ AllReferendums' = EmptyMap
    /\ last' = Reply("Restart", "t1", 0, "OK")
    /\ UNCHANGED <<now, records, callers, tabulated, gitbeVars, wwwVars, codecVars, raceVars, engineVars, indexVars>>

\* ---- gitbe: the anchor engine ---------------------------------------------
\* the digests of the commits of a log, by ordinal
digestAt(log, i) == commitDigest(log[i].Hash)

\* the ordinal of the commit LastAnchor.Last names, 0 when it names none
lastOrdinal(log, la) ==
    IF \E i \in 1..Len(log) : digestAt(log, i).s = la.Last.s
    THEN CHOOSE i \in 1..Len(log) : digestAt(log, i).s = la.Last.s
    ELSE 0

\* a commit that is neither an anchor nor an anchor confirmation
ordinaryCommit(commit) == commit.Message[1][1] # markerAnchor

\* the commits a drop anchors: the ordinary commits newer than
\* LastAnchor.Last, in the order of the log, the newest first
unanchored(log, la) ==
    SelectSeq(getCommitsFromLog(SubSeq(log, lastOrdinal(log, la) + 1, Len(log))),
              ordinaryCommit)

\* the message of an anchor commit: the marker line, a blank line, a line
\* for each digest and its message, and the blank line that ends the message
anchorMessage(root, digests, messages) ==
    <<<<markerAnchor, hexEncodeToString(root)>>, <<>>>>
        \o [i \in 1..Len(digests) |->
               <<hexEncodeToString(digests[i])>> \o messages[i]]
        \o <<<<>>>>

\* the message of an anchor confirmation commit
confirmationMessage(root, tx, chainTime) ==
    <<markerAnchorConfirmation, <<>>,
      <<hexEncodeToString(root), tx, chainTime>>, <<>>>>

\* a commit of a record to the vetted branch
commitVetted ==
    /\ Len(gitLog) < MaxCommits
    /\ gitLog' = Append(gitLog,
                    [Hash |-> commitHash(Len(gitLog) + 1),
                     Time |-> now,
                     Message |-> <<<<"record", ToString(Len(gitLog) + 1)>>,
                                   <<>>>>])
    /\ UNCHANGED <<daemonVars, wwwVars, build, lastAnchorFile,
                   unconfirmedFile, anchorFiles, codecVars, raceVars, engineVars, indexVars>>

\* a drop of an anchor over the commits made since the last anchor
anchorDrop ==
    LET la == readLastAnchorRecord(build, getCommitsFromLog(gitLog))
        batch == unanchored(gitLog, la)
        D == [i \in 1..Len(batch) |-> commitDigest(batch[i].Hash)]
        M == [i \in 1..Len(batch) |-> batch[i].Message[1]]
        root == MerkleRoot(sortDigests(D))
        made == newAnchorRecord("AnchorUnverified", D, M, now)
    IN  /\ Len(gitLog) < MaxCommits
        /\ Len(batch) > 0
        /\ gitLog' = Append(gitLog,
                        [Hash |-> commitHash(Len(gitLog) + 1),
                         Time |-> now,
                         Message |-> anchorMessage(root, D, M)])
        /\ anchorFiles' = MapSet(anchorFiles, hexEncodeToString(root),
                                 made.anchor)
        /\ lastAnchorFile' =
             [Last |-> D[Len(D)], Time |-> now, Merkle |-> root]
        /\ unconfirmedFile' = Append(unconfirmedFile, root)
        /\ UNCHANGED <<daemonVars, wwwVars, build, codecVars, raceVars, engineVars, indexVars>>

\* a confirmation of the anchor with the given root by the oracle
anchorConfirm(i) ==
    LET root == unconfirmedFile[i]
        key == hexEncodeToString(root)
    IN  /\ Len(gitLog) < MaxCommits
        /\ i \in 1..Len(unconfirmedFile)
        /\ gitLog' = Append(gitLog,
                        [Hash |-> commitHash(Len(gitLog) + 1),
                         Time |-> now,
                         Message |-> confirmationMessage(root, "tx", "chain")])
        /\ unconfirmedFile' =
             SelectSeq(unconfirmedFile, LAMBDA m : m # root)
        /\ anchorFiles' =
             [anchorFiles EXCEPT ![key].Type = "AnchorVerified"]
        /\ UNCHANGED <<daemonVars, wwwVars, build, lastAnchorFile, codecVars, raceVars, engineVars, indexVars>>

\* ---- gitbe: the index read from any log the marker grammar allows --------
\* the Merkle roots and the bodies of the anchor commits of such a log
IndexRoots == {hexDecodeString("300"), hexDecodeString("600")}
IndexBodies ==
    {[D |-> <<commitDigest("3")>>, M |-> <<<<"record", "1">>>>],
     [D |-> <<commitDigest("6"), commitDigest("3")>>,
      M |-> <<<<"record", "2">>, <<"record", "1">>>>]}

\* the messages of the commits of such a log: ordinary commits, anchor
\* commits with one body line at least, and confirmation commits
GrammarMessages ==
    {<<<<"record", "1">>, <<>>>>}
      \cup {anchorMessage(root, b.D, b.M) : root \in IndexRoots, b \in IndexBodies}
      \cup {confirmationMessage(root, "tx", "chain") : root \in IndexRoots}

\* git commit on the vetted branch with the given message
gitCommit(message) ==
    /\ Len(gitLog) < MaxCommits
    /\ gitLog' = Append(gitLog,
                    [Hash |-> commitHash(Len(gitLog) + 1),
                     Time |-> now,
                     Message |-> message])
    /\ views' = NoViews
    /\ UNCHANGED <<daemonVars, wwwVars, build, lastAnchorFile,
                   unconfirmedFile, anchorFiles, codecVars, raceVars,
                   engineVars, gitOut, parsed>>

\* the three readers of the index, run over the log as it is
readIndex ==
    /\ ~views.read
    /\ views' =
         [read |-> TRUE,
          listing |-> listAnchorRecords(getCommitsFromLog(gitLog)),
          last |-> readLastAnchorRecord(build, getCommitsFromLog(gitLog)),
          unconfirmed |->
              readUnconfirmedAnchorRecord(build, getCommitsFromLog(gitLog))]
    /\ UNCHANGED <<daemonVars, gitbeVars, wwwVars, codecVars, raceVars,
                   engineVars, gitOut, parsed>>

\* ---- gitbe: the parsers of the output of git log --------------------------
\* A line of the output is the sequence of its units: a unit is a word or
\* the blank " " between words.
MaxBodyLines == 2

\* strings.Fields: the words of a line
stringsFields(line) == SelectSeq(line, LAMBDA u : u # " ")

\* strings.Join(words, " "): the words with one blank between neighbours
stringsJoin(words) ==
    [i \in 1..(IF Len(words) = 0 THEN 0 ELSE 2 * Len(words) - 1) |->
        IF i % 2 = 1 THEN words[(i + 1) \div 2] ELSE " "]

\* regexCommitHash.MatchString and regexCommitDate.MatchString: the keyword
\* opens the line and a word follows it
regexCommitHash(line) ==
    Len(line) > 0 /\ line[1] = "commit" /\ Len(stringsFields(line)) >= 2
regexCommitDate(line) ==
    Len(line) > 0 /\ line[1] = "Date:" /\ Len(stringsFields(line)) >= 2

\* the length of the message extractNextCommit accumulates: the lines from
\* the fifth on, up to the line that opens the next commit
RECURSIVE messageLength(_, _)
messageLength(logSlice, from) ==
    IF from > Len(logSlice) \/ regexCommitHash(logSlice[from]) THEN 0
    ELSE 1 + messageLength(logSlice, from + 1)

\* extractNextCommit: the commit at the head of a slice of the log, with the
\* words of each line of its message, and the number of lines it took
extractNextCommit(logSlice) ==
    IF ~regexCommitHash(logSlice[1])
    THEN [err |-> "Commit expected"]
    ELSE IF ~regexCommitDate(logSlice[3])
    THEN [err |-> "Date expected"]
    ELSE [err |-> "",
          commit |->
              [Hash |-> stringsFields(logSlice[1])[2],
               Time |-> stringsFields(logSlice[3])[2],
               Message |-> [i \in 1..messageLength(logSlice, 5) |->
                               stringsFields(logSlice[4 + i])]],
          linesUsed |-> messageLength(logSlice, 5) + 4]

\* extractAnchorDigests: how it ends; the slice Message[2 : len-1] needs
\* three lines at least, and Fields(line)[0] a word on every line of it
extractAnchorDigestsErr(commit) ==
    IF ~regexAnchor(commit.Message[1]) THEN "Expected an anchor commit"
    ELSE IF Len(commit.Message) < 3 THEN "Panic"
    ELSE IF \E i \in 3..(Len(commit.Message) - 1) : commit.Message[i] = <<>>
    THEN "Panic"
    ELSE ""

\* readLastAnchorRecord of the hybrid revision, from the marker line on: how
\* it ends; it reads the first word of Message[2]
topCommitLineErr(commit) ==
    IF Len(commit.Message) < 3 THEN "Panic"
    ELSE IF commit.Message[3] = <<>> THEN "Panic"
    ELSE ""

\* the lines git log prints for an anchor commit and the line that opens
\* the commit after it: the commit line, the author, the date, a blank line,
\* the message indented by four blanks, and a blank line. git drops blank
\* lines at the end of a message, so the blank line after the marker of a
\* commit without body lines is printed when kept is true and missing when
\* it is false.
Indent == <<" ", " ", " ", " ">>
ParseDigests == {"300", "600"}
ShortMessages ==
    {<<>>, <<"record">>, <<"record", " ", "1">>, <<"record", " ", " ", "1">>}
BodyLines ==
    {Indent \o <<d>> \o (IF m = <<>> THEN <<>> ELSE <<" ">> \o m) :
        d \in ParseDigests, m \in ShortMessages}

gitLogOf(body, kept) ==
    <<<<"commit", " ", "6">>, <<"Author:", " ", "politeia">>,
      <<"Date:", " ", " ", " ", "7">>, <<>>,
      Indent \o <<markerAnchor, " ", "900">>>>
        \o (IF Len(body) > 0 \/ kept THEN <<Indent>> ELSE <<>>)
        \o body
        \o <<<<>>, <<"commit", " ", "3">>>>

AnchorLogs ==
    {gitLogOf(body, kept) :
        body \in SeqsUpTo(BodyLines, MaxBodyLines), kept \in BOOLEAN}

\* the parsers run over the printed commit: extractNextCommit, then
\* extractAnchorDigests as the listing calls it, and in the hybrid revision
\* the read of the top line by readLastAnchorRecord
parseAnchor ==
    LET next == extractNextCommit(gitOut)
        err == IF next.err # "" THEN next.err
               ELSE extractAnchorDigestsErr(next.commit)
        found == extractAnchorDigests(next.commit)
    IN  /\ ~parsed.ran
        /\ parsed' =
             [ran |-> TRUE,
              err |-> err,
              lastErr |-> IF next.err = "" /\ build = "hybrid"
                          THEN topCommitLineErr(next.commit) ELSE "",
              Digests |-> IF err = "" THEN found.Digests ELSE <<>>,
              Messages |-> IF err = ""
                           THEN [i \in 1..Len(found.Messages) |->
                                    stringsJoin(found.Messages[i])]
                           ELSE <<>>]
        /\ UNCHANGED <<daemonVars, gitbeVars, wwwVars, codecVars, raceVars,
                       engineVars, views, gitOut>>

\* ---- gitbe: the anchor engine and the timestamp oracle --------------------
\* the values a confirmation of the oracle carries
Transactions == {"txA"}
ChainTimes == {8, 9}

\* how a call of the oracle fails
Failures == {"error", "timeout"}

\* what the oracle holds for a root that was submitted and is not confirmed
PendingRoot == [state |-> "pending", tx |-> "", chainTime |-> 0]

\* the roots the engine waits for: the UnconfirmedAnchor record of the index
waiting == readUnconfirmedAnchorRecord(build, getCommitsFromLog(gitLog))

\* the engine after a call of the oracle that applied nothing
Called(call, root, res) ==
    [IdleEngine EXCEPT !.call = call, !.root = root, !.res = res]

\* Timestamp(root) for a root the engine waits for: ok, duplicate, or a
\* failure that leaves the oracle as it was
oracleTimestamp(i, failure) ==
    LET key == hexEncodeToString(waiting[i])
    IN  /\ engine.pc = "idle"
        /\ i \in 1..Len(waiting)
        /\ oracle' = IF failure \in Failures \/ key \in DOMAIN oracle
                     THEN oracle
                     ELSE MapSet(oracle, key, PendingRoot)
        /\ engine' = Called("Timestamp", key,
                            IF failure \in Failures THEN failure
                            ELSE IF key \in DOMAIN oracle THEN "duplicate"
                            ELSE "ok")
        /\ UNCHANGED <<daemonVars, gitbeVars, wwwVars, codecVars, raceVars, indexVars>>

\* the oracle anchors a root it was given in a transaction of the chain
oracleConfirms(key, tx, chainTime) ==
    /\ key \in DOMAIN oracle
    /\ oracle[key].state = "pending"
    /\ oracle' = [oracle EXCEPT
                    ![key] = [state |-> "confirmed", tx |-> tx,
                              chainTime |-> chainTime]]
    /\ UNCHANGED <<daemonVars, gitbeVars, wwwVars, codecVars, raceVars,
                   engine, indexVars>>

\* a poll that takes a failed call for a confirmation and forgets the root
oracleVerify_ForgetsOnFailure(i, failure) ==
    LET key == hexEncodeToString(waiting[i])
        answer == IF failure \in Failures THEN failure
                  ELSE IF key \notin DOMAIN oracle THEN "notFound"
                  ELSE oracle[key].state
    IN  /\ engine.pc = "idle"
        /\ i \in 1..Len(waiting)
        /\ answer # "confirmed"
        /\ engine' = Called("Verify", key, answer)
        /\ unconfirmedFile' =
             IF failure \in Failures
             THEN SelectSeq(unconfirmedFile,
                            LAMBDA m : hexEncodeToString(m) # key)
             ELSE unconfirmedFile
        /\ UNCHANGED <<daemonVars, wwwVars, codecVars, raceVars, build,
                       gitLog, lastAnchorFile, anchorFiles, oracle, indexVars>>

\* Verify(root) for a root the engine waits for, with an answer other than
\* confirmed: pending, notFound, or a failed call
oracleVerify(i, failure) ==
    LET key == hexEncodeToString(waiting[i])
        answer == IF failure \in Failures THEN failure
                  ELSE IF key \notin DOMAIN oracle THEN "notFound"
                  ELSE oracle[key].state
    IN  /\ engine.pc = "idle"
        /\ i \in 1..Len(waiting)
        /\ answer # "confirmed"
        /\ engine' = Called("Verify", key, answer)
        /\ UNCHANGED <<daemonVars, gitbeVars, wwwVars, codecVars, raceVars,
                       oracle, indexVars>>

\* Verify(root) answers confirmed(tx, chainTime): the first step of the
\* confirmation, the anchor confirmation commit
confirmCommit(i) ==
    LET key == hexEncodeToString(waiting[i])
    IN  /\ engine.pc = "idle"
        /\ Len(gitLog) < MaxCommits
        /\ i \in 1..Len(waiting)
        /\ key \in DOMAIN oracle
        /\ oracle[key].state = "confirmed"
        /\ gitLog' = Append(gitLog,
                        [Hash |-> commitHash(Len(gitLog) + 1),
                         Time |-> now,
                         Message |->
                            confirmationMessage(waiting[i], oracle[key].tx,
                                                ToString(oracle[key].chainTime))])
        /\ engine' = [pc |-> "committed", root |-> key,
                      tx |-> oracle[key].tx,
                      chainTime |-> oracle[key].chainTime,
                      call |-> "Verify", res |-> "confirmed"]
        /\ UNCHANGED <<daemonVars, wwwVars, codecVars, raceVars, build,
                       lastAnchorFile, unconfirmedFile, anchorFiles, oracle, indexVars>>

\* the second step of the confirmation: writeUnconfirmedAnchorRecord with
\* the list without the confirmed root
confirmRemoveRoot ==
    /\ engine.pc = "committed"
    /\ unconfirmedFile' =
         SelectSeq(unconfirmedFile,
                   LAMBDA m : hexEncodeToString(m) # engine.root)
    /\ engine' = [engine EXCEPT !.pc = "listed"]
    /\ UNCHANGED <<daemonVars, wwwVars, codecVars, raceVars, build, gitLog,
                   lastAnchorFile, anchorFiles, oracle, indexVars>>

\* the third step of the confirmation: writeAnchorRecord with the anchor
\* as Verified and the chain information of the confirmation
confirmSetVerified ==
    /\ engine.pc = "listed"
    /\ anchorFiles' =
         IF engine.root \in DOMAIN anchorFiles
         THEN [anchorFiles EXCEPT
                 ![engine.root] =
                    [@ EXCEPT !.Type = "AnchorVerified",
                              !.ChainTimestamp = engine.chainTime,
                              !.Transaction = engine.tx]]
         ELSE anchorFiles
    /\ engine' = Called("Verify", engine.root, "confirmed")
    /\ UNCHANGED <<daemonVars, wwwVars, codecVars, raceVars, build, gitLog,
                   lastAnchorFile, unconfirmedFile, oracle, indexVars>>

\* the process stops and starts again, also between two steps of a
\* confirmation: the files and the log stay as they are, the engine resumes
\* from the index
engineRestart ==
    /\ engine # IdleEngine
    /\ engine' = IdleEngine
    /\ UNCHANGED <<daemonVars, gitbeVars, wwwVars, codecVars, raceVars,
                   oracle, indexVars>>

\* ---- politeiawww: proposals and the inventory -----------------------------
\* www.PolicyReply: the limits ProcessPolicy reports
MaxMDs == 1
MaxImages == 1
MaxMDSize == 2
MaxImageSize == 2

\* the censorship tokens backend.New can draw (0 stands for no token), and
\* the payloads of the tests
WwwTokens == 1..MaxProposals
NoToken == 0
Payloads == {"p1", "p2"}

indexFile == "index.md"
mimeMD == "text/plain; charset=utf-8"
mimePNG == "image/png"

\* the files createNewProposalWithFileSizes submits: the first markdown file
\* is the index file, the other names are random; Size is the length of the
\* payload
filesWithFileSizes(numMDFiles, numImageFiles, mdSize, imageSize, payload) ==
    [i \in 1..numMDFiles |->
        [Name |-> IF i = 1 THEN indexFile ELSE "md" \o ToString(i),
         MIME |-> mimeMD, Size |-> mdSize, Payload |-> payload]]
    \o [i \in 1..numImageFiles |->
        [Name |-> "png" \o ToString(i),
         MIME |-> mimePNG, Size |-> imageSize, Payload |-> payload]]

\* the files createNewProposalWithDuplicateFiles submits: the index file
\* twice
duplicateFiles(payload) ==
    <<[Name |-> indexFile, MIME |-> mimeMD, Size |-> 1, Payload |-> payload],
      [Name |-> indexFile, MIME |-> mimeMD, Size |-> 1, Payload |-> payload]>>

\* the files createNewProposalWithoutIndexFile submits
filesWithoutIndexFile(payload) ==
    <<[Name |-> "not_index.md", MIME |-> mimeMD, Size |-> 1,
       Payload |-> payload]>>

\* the files of a submission with the given MIME type
filesOfMIME(files, mime) == SelectSeq(files, LAMBDA f : f.MIME = mime)

\* the rules a submission breaks, by the error status of each rule
brokenRules(files) ==
    {code \in {"ErrorStatusProposalMissingFiles",
               "ErrorStatusProposalDuplicateFilenames",
               "ErrorStatusMaxMDsExceededPolicy",
               "ErrorStatusMaxImagesExceededPolicy",
               "ErrorStatusMaxMDSizeExceededPolicy",
               "ErrorStatusMaxImageSizeExceededPolicy"} :
        \/ /\ code = "ErrorStatusProposalMissingFiles"
           /\ \/ Len(files) = 0
              \/ \A i \in 1..Len(files) : files[i].Name # indexFile
        \/ /\ code = "ErrorStatusProposalDuplicateFilenames"
           /\ \E i, j \in 1..Len(files) : i # j /\ files[i].Name = files[j].Name
        \/ /\ code = "ErrorStatusMaxMDsExceededPolicy"
           /\ Len(filesOfMIME(files, mimeMD)) > MaxMDs
        \/ /\ code = "ErrorStatusMaxImagesExceededPolicy"
           /\ Len(filesOfMIME(files, mimePNG)) > MaxImages
        \/ /\ code = "ErrorStatusMaxMDSizeExceededPolicy"
           /\ \E i \in 1..Len(files) :
                 files[i].MIME = mimeMD /\ files[i].Size > MaxMDSize
        \/ /\ code = "ErrorStatusMaxImageSizeExceededPolicy"
           /\ \E i \in 1..Len(files) :
                 files[i].MIME = mimePNG /\ files[i].Size > MaxImageSize}

\* the order in which the rules are tested
ruleOrder ==
    <<"ErrorStatusProposalMissingFiles",
      "ErrorStatusProposalDuplicateFilenames",
      "ErrorStatusMaxMDsExceededPolicy",
      "ErrorStatusMaxImagesExceededPolicy",
      "ErrorStatusMaxMDSizeExceededPolicy",
      "ErrorStatusMaxImageSizeExceededPolicy">>

\* backend.New up to its commit: nil, a ContentVerificationError with the
\* code of the first broken rule, or some other error
backendNewErr(files, fail) ==
    LET broken == brokenRules(files)
    IN  IF broken # {}
        THEN [kind |-> "ContentVerificationError",
              code |-> ruleOrder[CHOOSE i \in 1..Len(ruleOrder) :
                            /\ ruleOrder[i] \in broken
                            /\ \A j \in 1..(i - 1) : ruleOrder[j] \notin broken]]
        ELSE IF fail THEN [kind |-> "error", code |-> ""]
        ELSE [kind |-> "nil", code |-> ""]

\* the reply that loses the code of a content error
newRecordReply_ServerErrorOnly(err) ==
    IF err.kind # "nil"
    THEN [http |-> "StatusInternalServerError", code |-> ""]
    ELSE [http |-> "StatusOK", code |-> ""]

\* politeia.newRecord after backend.New: a content error is answered as a
\* user error with its code, any other error as a server error
newRecordReply(err) ==
    IF err.kind = "ContentVerificationError"
    THEN [http |-> "StatusBadRequest", code |-> err.code]
    ELSE IF err.kind # "nil"
    THEN [http |-> "StatusInternalServerError", code |-> ""]
    ELSE [http |-> "StatusOK", code |-> ""]

\* the order of the catalog: Timestamp descending, then Token ascending
catalogBefore(a, b) ==
    \/ a.Timestamp > b.Timestamp
    \/ a.Timestamp = b.Timestamp /\ a.Token < b.Token

\* the branch that holds the records of a status
branchOf(status) ==
    IF status = "PropStatusPublic" THEN "vetted" ELSE "unvetted"

\* Put and Move of the catalog: the record leaves the sequences it was in
\* and enters the sequence of its branch at its place in the order
catalogPut(inv, r) ==
    [b \in {"vetted", "unvetted"} |->
        LET others == SelectSeq(inv[b], LAMBDA x : x.Token # r.Token)
        IN  IF b = branchOf(r.Status)
            THEN SortSeq(Append(others, r), catalogBefore)
            ELSE others]

\* the catalog rebuilt from the records of the store
catalogOfStore(st) ==
    [b \in {"vetted", "unvetted"} |->
        LET S == {st[t] : t \in {u \in DOMAIN st : branchOf(st[u].Status) = b}}
        IN  CHOOSE s \in [1..Cardinality(S) -> S] :
                \A i, j \in 1..Cardinality(S) :
                    i < j => catalogBefore(s[i], s[j])]

\* the reply of a call of politeiawww
WwwReply(op, tok, code, files) ==
    [op |-> op, token |-> tok, code |-> code, files |-> files]

\* ProcessNewProposal: tok is the token backend.New draws
ProcessNewProposal(files, tok, fail) ==
    LET reply == newRecordReply(backendNewErr(files, fail))
        r == [Token |-> tok, Status |-> "PropStatusNotReviewed",
              Timestamp |-> now, Files |-> files]
    IN  IF reply.http # "StatusOK"
        THEN /\ tok = NoToken
             /\ wwwLast' = WwwReply("New", NoToken,
                               IF reply.http = "StatusBadRequest"
                               THEN reply.code ELSE "ErrorStatusInvalid", files)
             /\ UNCHANGED <<store, inventory, submitted>>
        ELSE /\ tok \in WwwTokens \ DOMAIN store
             /\ store' = MapSet(store, tok, r)
             /\ inventory' = catalogPut(inventory, r)
             /\ submitted' = MapSet(submitted, tok, files)
             /\ wwwLast' = WwwReply("New", tok, "OK", files)

\* createNewProposalWithFileSizes
createNewProposalWithFileSizes(numMDFiles, numImageFiles, mdSize, imageSize, payload, tok, fail) ==
    /\ ProcessNewProposal(
           filesWithFileSizes(numMDFiles, numImageFiles, mdSize, imageSize,
                              payload),
           tok, fail)
    /\ UNCHANGED <<daemonVars, gitbeVars, codecVars, raceVars, engineVars, indexVars>>

\* the creation that appends to the inventory without placing the record
createNewProposal_Appended(payload, tok) ==
    LET files == filesWithFileSizes(1, 0, 1, 1, payload)
        r == [Token |-> tok, Status |-> "PropStatusNotReviewed",
              Timestamp |-> now, Files |-> files]
    IN  /\ tok \in WwwTokens \ DOMAIN store
        /\ store' = MapSet(store, tok, r)
        /\ inventory' = [inventory EXCEPT
                            !["unvetted"] = Append(inventory["unvetted"], r)]
        /\ submitted' = MapSet(submitted, tok, files)
        /\ wwwLast' = WwwReply("New", tok, "OK", <<>>)
        /\ UNCHANGED <<daemonVars, gitbeVars, codecVars, raceVars, engineVars, indexVars>>

\* createNewProposal: one markdown file, no image, of the default size
createNewProposal(payload, tok) ==
    /\ ProcessNewProposal(filesWithFileSizes(1, 0, 1, 1, payload), tok, FALSE)
    /\ UNCHANGED <<daemonVars, gitbeVars, codecVars, raceVars, engineVars, indexVars>>

\* createNewProposalWithDuplicateFiles
createNewProposalWithDuplicateFiles(payload, tok) ==
    /\ ProcessNewProposal(duplicateFiles(payload), tok, FALSE)
    /\ UNCHANGED <<daemonVars, gitbeVars, codecVars, raceVars, engineVars, indexVars>>

\* createNewProposalWithoutIndexFile
createNewProposalWithoutIndexFile(payload, tok) ==
    /\ ProcessNewProposal(filesWithoutIndexFile(payload), tok, FALSE)
    /\ UNCHANGED <<daemonVars, gitbeVars, codecVars, raceVars, engineVars, indexVars>>

\* ProcessSetProposalStatus: the status and the time of the change are
\* written, the files are left alone, the catalog follows
ProcessSetProposalStatus(tok, status) ==
    IF tok \notin DOMAIN store
    THEN /\ wwwLast' = WwwReply("SetStatus", tok, "ErrorStatusProposalNotFound", <<>>)
         /\ UNCHANGED <<store, inventory, submitted>>
    ELSE IF store[tok].Status # "PropStatusNotReviewed"
    THEN /\ wwwLast' = WwwReply("SetStatus", tok, "ErrorStatusInvalidPropStatusTransition", <<>>)
         /\ UNCHANGED <<store, inventory, submitted>>
    ELSE LET r == [store[tok] EXCEPT !.Status = status, !.Timestamp = now]
         IN  /\ store' = [store EXCEPT ![tok] = r]
             /\ inventory' = catalogPut(inventory, r)
             /\ wwwLast' = WwwReply("SetStatus", tok, "OK", <<>>)
             /\ UNCHANGED submitted

\* the status change that leaves the old entry of the catalog in place
publishProposal_StaleCatalog(tok) ==
    /\ tok \in DOMAIN store
    /\ store[tok].Status = "PropStatusNotReviewed"
    /\ store' = [store EXCEPT ![tok].Status = "PropStatusPublic",
                              ![tok].Timestamp = now]
    /\ wwwLast' = WwwReply("SetStatus", tok, "OK", <<>>)
    /\ UNCHANGED <<inventory, submitted, daemonVars, gitbeVars, codecVars, raceVars, engineVars, indexVars>>

\* publishProposal
publishProposal(tok) ==
    /\ ProcessSetProposalStatus(tok, "PropStatusPublic")
    /\ UNCHANGED <<daemonVars, gitbeVars, codecVars, raceVars, engineVars, indexVars>>

\* censorProposal
censorProposal(tok) ==
    /\ ProcessSetProposalStatus(tok, "PropStatusCensored")
    /\ UNCHANGED <<daemonVars, gitbeVars, codecVars, raceVars, engineVars, indexVars>>

\* the details that answer with the first submitted payload of any record
getProposalDetails_AnyRecord(tok) ==
    /\ wwwLast' = IF store = EmptyMap
                  THEN WwwReply("Details", tok, "ErrorStatusProposalNotFound", <<>>)
                  ELSE WwwReply("Details", tok, "OK",
                           store[CHOOSE t \in DOMAIN store : TRUE].Files)
    /\ UNCHANGED <<store, inventory, submitted, daemonVars, gitbeVars, codecVars, raceVars, engineVars, indexVars>>

\* getProposalDetails: ProcessProposalDetails reads the record of the token
getProposalDetails(tok) ==
    /\ wwwLast' = IF tok \in DOMAIN store
                  THEN WwwReply("Details", tok, "OK", store[tok].Files)
                  ELSE WwwReply("Details", tok, "ErrorStatusProposalNotFound", <<>>)
    /\ UNCHANGED <<store, inventory, submitted, daemonVars, gitbeVars, codecVars, raceVars, engineVars, indexVars>>

\* b.LoadInventory(): the inventory is wiped and fetched again
LoadInventory ==
    /\ inventory' = catalogOfStore(store)
    /\ wwwLast' = WwwReply("LoadInventory", NoToken, "OK", <<>>)
    /\ UNCHANGED <<store, submitted, daemonVars, gitbeVars, codecVars, raceVars, engineVars, indexVars>>

\* the clock of the tests: time.Sleep between two proposals
Sleep ==
    /\ now < MaxSleeps
    /\ now' = now + 1
    /\ UNCHANGED <<records, AllReferendums, last, callers, tabulated,
                   gitbeVars, wwwVars, codecVars, raceVars, engineVars, indexVars>>

\* writeAnchorRecord
writeAnchorRecord ==
    /\ codecVal.kind = "Anchor"
    /\ db' = [db EXCEPT !.anchors =
                 MapSet(@, anchorFilename(codecVal.key),
                        <<encodeAnchor(codecVal.value)>>)]
    /\ UNCHANGED <<codecVal, codecRead, daemonVars, gitbeVars, wwwVars, raceVars, engineVars, indexVars>>

\* readAnchorRecord
readAnchorRecord ==
    /\ codecVal.kind = "Anchor"
    /\ codecRead' =
         IF anchorFilename(codecVal.key) \in DOMAIN db.anchors
         THEN ReadResult(TRUE, "nil",
                 DecodeAnchor(db.anchors[anchorFilename(codecVal.key)][1]))
         ELSE ReadResult(FALSE, "IsNotExist", codecVal.value)
    /\ UNCHANGED <<codecVal, db, daemonVars, gitbeVars, wwwVars, raceVars, engineVars, indexVars>>

\* writeLastAnchorRecord
writeLastAnchorRecord ==
    /\ codecVal.kind = "LastAnchor"
    /\ db' = [db EXCEPT !.lastanchor = <<encodeLastAnchor(codecVal.value)>>]
    /\ UNCHANGED <<codecVal, codecRead, daemonVars, gitbeVars, wwwVars, raceVars, engineVars, indexVars>>

\* readLastAnchorRecord of the database: a missing file gives LastAnchor{}
readLastAnchorRecordFromFile ==
    /\ codecVal.kind = "LastAnchor"
    /\ codecRead' =
         IF db.lastanchor # NoFile
         THEN ReadResult(TRUE, "nil", DecodeLastAnchor(db.lastanchor[1]))
         ELSE ReadResult(FALSE, "nil", ZeroLastAnchor)
    /\ UNCHANGED <<codecVal, db, daemonVars, gitbeVars, wwwVars, raceVars, engineVars, indexVars>>

\* writeUnconfirmedAnchorRecord
writeUnconfirmedAnchorRecord ==
    /\ codecVal.kind = "UnconfirmedAnchor"
    /\ db' = [db EXCEPT
                 !.unconfirmed = <<encodeUnconfirmedAnchor(codecVal.value)>>]
    /\ UNCHANGED <<codecVal, codecRead, daemonVars, gitbeVars, wwwVars, raceVars, engineVars, indexVars>>

\* readUnconfirmedAnchorRecord of the database: a missing file gives
\* UnconfirmedAnchor{}
readUnconfirmedAnchorRecordFromFile ==
    /\ codecVal.kind = "UnconfirmedAnchor"
    /\ codecRead' =
         IF db.unconfirmed # NoFile
         THEN ReadResult(TRUE, "nil",
                         DecodeUnconfirmedAnchor(db.unconfirmed[1]))
         ELSE ReadResult(FALSE, "nil", ZeroUnconfirmedAnchor)
    /\ UNCHANGED <<codecVal, db, daemonVars, gitbeVars, wwwVars, raceVars, engineVars, indexVars>>

\* ---- referendumVote, step by step -----------------------------------------
\* referendumVote up to the test of CastVote: the lookup in AllReferendums,
\* checkActive and the read of r.Votes[user]; no lock is held
CastVoteCheck(th, tok, user, vote) ==
    /\ inflight[th].pc = "idle"
    /\ LET err == IF tok \notin DOMAIN AllReferendums
                  THEN "ReferendumNotFound"
                  ELSE CastVoteErr(AllReferendums[tok], user, now)
       IN  inflight' = [inflight EXCEPT ![th] =
               [pc |-> IF err = "OK" THEN "checked" ELSE "done",
                token |-> tok, user |-> user, vote |-> vote,
                res |-> IF err = "OK" THEN "" ELSE err]]
    /\ UNCHANGED <<daemonVars, gitbeVars, wwwVars, codecVars, engineVars, indexVars>>

\* CastVote, "Set their vote": r.Votes[user] = v.VoteCast, and the reply
CastVoteSet(th) ==
    /\ inflight[th].pc = "checked"
    /\ inflight[th].token \in DOMAIN AllReferendums
    /\ AllReferendums' =
         [AllReferendums EXCEPT ![inflight[th].token].Votes =
             MapSet(@, inflight[th].user, inflight[th].vote)]
    /\ inflight' = [inflight EXCEPT ![th].pc = "done", ![th].res = "OK"]
    /\ last' = [Reply("referendumVote", inflight[th].token, inflight[th].user,
                      "OK") EXCEPT !.status = "RecordStatusReferendum"]
    /\ UNCHANGED <<now, records, callers, tabulated, gitbeVars, wwwVars,
                   codecVars, engineVars, indexVars>>

\* two goroutines in the same map at once: the runtime may end the process
\* with "fatal error: concurrent map writes"; the daemon starts again
CastVoteFatal(th) ==
    /\ inflight[th].pc = "checked"
    /\ \E other \in Threads \ {th} :
          /\ inflight[other].pc = "checked"
          /\ inflight[other].token = inflight[th].token
    /\ AllReferendums' = EmptyMap
    /\ inflight' = [t \in Threads |->
                       IF inflight[t].pc = "checked"
                       THEN [inflight[t] EXCEPT !.pc = "done", !.res = "Fatal"]
                       ELSE inflight[t]]
    /\ last' = Reply("Restart", inflight[th].token, 0, "OK")
    /\ UNCHANGED <<now, records, callers, tabulated, gitbeVars, wwwVars,
                   codecVars, engineVars, indexVars>>

Next ==
    \/ Tick
    \/ Restart
    \/ \E tok \in Tokens : newRecord(tok)
    \/ \E tok \in Tokens, changes \in BOOLEAN, fail \in BOOLEAN :
          updateUnvetted(tok, changes, fail)
    \/ \E tok \in Tokens, changes \in BOOLEAN, fail \in BOOLEAN :
          updateVettedMetadata(tok, changes, fail)
    \/ \E tok \in Tokens, fail \in BOOLEAN : getUnvetted(tok, fail)
    \/ \E tok \in Tokens, fail \in BOOLEAN : getVetted(tok, fail)
    \/ \E tok \in Tokens, apiStatus \in RecordStatusT, fail \in BOOLEAN :
          setUnvettedStatus(tok, apiStatus, fail)
    \/ \E tok \in Tokens, user \in Users, t2 \in 0..MaxTime, fail \in BOOLEAN :
          referendumCall(tok, user, t2, fail)
    \/ \E tok \in Tokens, user \in Users, vote \in VoteT :
          referendumVote(tok, user, vote)
    \/ \E tok \in Tokens, fail \in BOOLEAN : referendumResults(tok, fail)

Spec == Init /\ [][Next]_vars

\* the anchor engine on its own: either revision of the index may be built
AnchorInit ==
    /\ now = 0
    /\ records = EmptyMap
    /\ AllReferendums = EmptyMap
    /\ last = Reply("none", "t1", 0, "OK")
    /\ callers = [tok \in Tokens |-> {}]
    /\ tabulated = [tok \in Tokens |-> <<>>]
    /\ build \in Builds
    /\ gitLog = <<>>
    /\ lastAnchorFile = NoLastAnchor
    /\ unconfirmedFile = <<>>
    /\ anchorFiles = EmptyMap
    /\ store = EmptyMap
    /\ inventory = [b \in {"vetted", "unvetted"} |-> <<>>]
    /\ submitted = EmptyMap
    /\ wwwLast = [op |-> "none", token |-> 0, code |-> "OK", files |-> <<>>]
    /\ codecVal = NoCodecVal
    /\ db = EmptyDatabase
    /\ codecRead = <<>>
    /\ inflight = [th \in Threads |-> IdleCall]
    /\ oracle = EmptyMap
    /\ engine = IdleEngine
    /\ views = NoViews
    /\ gitOut = <<>>
    /\ parsed = NoParse

AnchorNext ==
    \/ Tick
    \/ commitVetted
    \/ anchorDrop
    \/ \E i \in 1..MaxCommits : anchorConfirm(i)

AnchorSpec == AnchorInit /\ [][AnchorNext]_vars

\* the inventory tests of politeiawww: proposals are created, published,
\* censored and fetched, the inventory is reloaded, the clock moves
WwwNext ==
    \/ Sleep
    \/ LoadInventory
    \/ \E payload \in Payloads, tok \in WwwTokens :
          createNewProposal(payload, tok)
    \/ \E tok \in WwwTokens : publishProposal(tok)
    \/ \E tok \in WwwTokens : censorProposal(tok)
    \/ \E tok \in WwwTokens : getProposalDetails(tok)

WwwSpec == Init /\ [][WwwNext]_vars

\* the policy test of politeiawww: submissions of every shape
PolicyNext ==
    \/ \E numMDFiles \in 0..(MaxMDs + 1), numImageFiles \in 0..(MaxImages + 1),
          mdSize \in 1..(MaxMDSize + 1), imageSize \in 1..(MaxImageSize + 1),
          tok \in {NoToken} \cup WwwTokens, fail \in BOOLEAN :
          createNewProposalWithFileSizes(numMDFiles, numImageFiles, mdSize,
                                         imageSize, "p1", tok, fail)
    \/ \E tok \in {NoToken} \cup WwwTokens :
          createNewProposalWithDuplicateFiles("p1", tok)
    \/ \E tok \in {NoToken} \cup WwwTokens :
          createNewProposalWithoutIndexFile("p1", tok)

PolicySpec == Init /\ [][PolicyNext]_vars

\* the database on its own: a record of one of the three types is written
\* and read
CodecInit ==
    /\ now = 0
    /\ records = EmptyMap
    /\ AllReferendums = EmptyMap
    /\ last = Reply("none", "t1", 0, "OK")
    /\ callers = [tok \in Tokens |-> {}]
    /\ tabulated = [tok \in Tokens |-> <<>>]
    /\ build = "log"
    /\ gitLog = <<>>
    /\ lastAnchorFile = NoLastAnchor
    /\ unconfirmedFile = <<>>
    /\ anchorFiles = EmptyMap
    /\ store = EmptyMap
    /\ inventory = [b \in {"vetted", "unvetted"} |-> <<>>]
    /\ submitted = EmptyMap
    /\ wwwLast = [op |-> "none", token |-> 0, code |-> "OK", files |-> <<>>]
    /\ codecVal \in
         {[kind |-> "Anchor", key |-> k, value |-> a] :
             k \in AnchorKeys, a \in AnchorValues}
         \cup {[kind |-> "LastAnchor", key |-> <<>>, value |-> la] :
                  la \in LastAnchorValues}
         \cup {[kind |-> "UnconfirmedAnchor", key |-> <<>>, value |-> u] :
                  u \in UnconfirmedAnchorValues}
    /\ db = EmptyDatabase
    /\ codecRead = <<>>
    /\ inflight = [th \in Threads |-> IdleCall]
    /\ oracle = EmptyMap
    /\ engine = IdleEngine
    /\ views = NoViews
    /\ gitOut = <<>>
    /\ parsed = NoParse

CodecNext ==
    \/ writeAnchorRecord
    \/ readAnchorRecord
    \/ writeLastAnchorRecord
    \/ readLastAnchorRecordFromFile
    \/ writeUnconfirmedAnchorRecord
    \/ readUnconfirmedAnchorRecordFromFile

CodecSpec == CodecInit /\ [][CodecNext]_vars

\* the referendum with referendumVote served by goroutines that interleave
\* with each other, with the clock and with referendumResults
RaceNext ==
    \/ Tick
    \/ \E tok \in Tokens : newRecord(tok)
    \/ \E tok \in Tokens : setUnvettedStatus(tok, "RecordStatusCensored", FALSE)
    \/ \E tok \in Tokens, user \in Users :
          referendumCall(tok, user, now, FALSE)
    \/ \E tok \in Tokens : referendumResults(tok, FALSE)
    \/ \E th \in Threads, tok \in Tokens, user \in Users,
          vote \in {"Approve", "NotApprove"} :
          CastVoteCheck(th, tok, user, vote)
    \/ \E th \in Threads : CastVoteSet(th)
    \/ \E th \in Threads : CastVoteFatal(th)

RaceSpec == Init /\ [][RaceNext]_vars

\* ---- properties ---------------------------------------------------------
\* the step is a call of handler op (every handler stamps last with its name)
IsCall(op) == last'.op = op

\* the referendum registered for the token of the step, before the step
RefBefore == AllReferendums[last'.token]

\* the number of votes v in a vote map
Tally(votes, v) == Cardinality({u \in DOMAIN votes : votes[u] = v})

\* a CastVote by an identity that is already a key of Votes
VotesAgain ==
    /\ IsCall("referendumVote")
    /\ last'.token \in DOMAIN AllReferendums
    /\ last'.user \in DOMAIN RefBefore.Votes

\* the vote map of the token of the step is the same after the step
VotesKept == AllReferendums'[last'.token].Votes = RefBefore.Votes

\* C1, as stated: a CastVote by an identity that is already a key of Votes is
\* rejected with AlreadyVoted, and the stored vote and both tallies are the
\* same as before the call.
C1_AlreadyVotedAlways ==
    [][VotesAgain => last'.res = "AlreadyVoted" /\ VotesKept]_vars

\* C1, amended: a CastVote by an identity that is already a key of Votes is
\* rejected, with AlreadyVoted while the current time is not past EndTime and
\* with ReferendumClosed once it is, and the stored vote and both tallies are
\* the same as before the call.
C1_SecondVoteRejected ==
    [][VotesAgain =>
         /\ last'.res = IF now > RefBefore.endTime
                        THEN "ReferendumClosed" ELSE "AlreadyVoted"
         /\ AllReferendums'[last'.token].Votes[last'.user]
              = RefBefore.Votes[last'.user]
         /\ \A v \in VoteT :
              Tally(AllReferendums'[last'.token].Votes, v)
                = Tally(RefBefore.Votes, v)
         /\ VotesKept]_vars

\* an identity that voted Approve is turned away with AlreadyVoted
C1_Witness ==
    /\ last.op = "referendumVote"
    /\ last.res = "AlreadyVoted"
    /\ last.token \in DOMAIN AllReferendums
    /\ AllReferendums[last.token].Votes[last.user] = "Approve"

\* C2: CastVote is rejected with ReferendumClosed at every current time
\* t >= EndTime, t = EndTime included, and inserts no vote then.
C2_ClosedFromEndTime ==
    [][(/\ IsCall("referendumVote")
        /\ last'.token \in DOMAIN AllReferendums
        /\ now >= RefBefore.endTime)
       => last'.res = "ReferendumClosed" /\ VotesKept]_vars
\* the step ran CreateReferendum for last'.user
Created ==
    /\ IsCall("referendumCall")
    /\ last'.res \notin {"RecordNotFound", "NotCensored"}

\* the step is a referendumResults that reached Referendum.GetResults
Tabulates == IsCall("referendumResults") /\ last'.path = "tabulate"

\* the vote map Referendum.GetResults of the step reads
VotesRead ==
    IF last'.token \in DOMAIN AllReferendums
    THEN RefBefore.Votes ELSE EmptyMap

\* C3: after Create(caller, record) the registered referendum's Votes is
\* exactly {caller -> NullVote}; every later CastVote by that caller on the
\* registered referendum is rejected with AlreadyVoted; the caller's NullVote
\* is in neither tally of GetResults.
C3_CallerCannotVote ==
    [][/\ Created =>
            AllReferendums'[last'.token].Votes
              = [u \in {last'.user} |-> "NullVote"]
       /\ (/\ IsCall("referendumVote")
           /\ last'.token \in DOMAIN AllReferendums
           /\ last'.user \in callers[last'.token])
          => last'.res = "AlreadyVoted"
       /\ (Tabulates /\ last'.res = "OK") =>
            last'.votesFor + last'.votesAgainst
              = Cardinality(DOMAIN VotesRead) - Tally(VotesRead, "NullVote")]_vars

\* C4: GetResults on a referendum is rejected with ReferendumActive exactly
\* when the current time is before EndTime, a rejected call changes neither
\* the status nor the metadata of the record, and at every current time
\* t >= EndTime, t = EndTime included, it tabulates.
C4_ActiveBeforeEndTime ==
    [][(Tabulates /\ last'.token \in DOMAIN AllReferendums) =>
         /\ (last'.res = "ReferendumActive") <=> (now < RefBefore.endTime)
         /\ last'.res = "ReferendumActive" => records' = records]_vars

\* C5: a successful GetResults returns Approve = the number of Approve votes
\* and NotApprove = the number of NotApprove votes of the vote map, with
\* target status VettedFinal if and only if Approve > NotApprove and
\* CensoredFinal otherwise, so that every tie yields CensoredFinal.
C5_TallyAndOutcome ==
    [][(Tabulates /\ last'.res = "OK") =>
         /\ last'.votesFor = Tally(VotesRead, "Approve")
         /\ last'.votesAgainst = Tally(VotesRead, "NotApprove")
         /\ last'.status =
              IF Tally(VotesRead, "Approve") > Tally(VotesRead, "NotApprove")
              THEN "RecordStatusVettedFinal" ELSE "RecordStatusCensoredFinal"]_vars

\* a tie of one Approve against one NotApprove ended in CensoredFinal
C5_Witness ==
    /\ last.op = "referendumResults"
    /\ last.path = "tabulate"
    /\ last.res = "OK"
    /\ last.votesFor = 1
    /\ last.votesAgainst = 1
    /\ records[last.token].status = "MDStatusCensoredFinal"
\* the status of the record of the step's token before and after the step
StatusBefore == records[last'.token].status
StatusAfter == records'[last'.token].status

\* the record of the step's token is final before the step
FinalBefore ==
    last'.token \in DOMAIN records /\ StatusBefore \in FinalStatuses

StatusChangingOps ==
    {"setUnvettedStatus", "updateUnvetted", "referendumCall",
     "referendumResults"}

TransitionTable ==
    {<<"none", "MDStatusUnvetted", "newRecord">>,
     <<"MDStatusUnvetted", "MDStatusIterationUnvetted", "updateUnvetted">>,
     <<"MDStatusIterationUnvetted", "MDStatusIterationUnvetted", "updateUnvetted">>,
     <<"MDStatusUnvetted", "MDStatusVetted", "setUnvettedStatus">>,
     <<"MDStatusIterationUnvetted", "MDStatusVetted", "setUnvettedStatus">>,
     <<"MDStatusUnvetted", "MDStatusCensored", "setUnvettedStatus">>,
     <<"MDStatusIterationUnvetted", "MDStatusCensored", "setUnvettedStatus">>,
     <<"MDStatusCensored", "MDStatusReferendum", "referendumCall">>,
     <<"MDStatusReferendum", "MDStatusVettedFinal", "referendumResults">>,
     <<"MDStatusReferendum", "MDStatusCensoredFinal", "referendumResults">>,
     <<"MDStatusVetted", "MDStatusVetted", "updateVettedMetadata">>}

StatusOf(recs, tok) == IF tok \in DOMAIN recs THEN recs[tok].status ELSE "none"

\* the statuses of all records are legal and the step changes none of them
\* except along a row of the table
LegalStep ==
    /\ \A tok \in DOMAIN records' : records'[tok].status \in MDStatusT
    /\ \A tok \in Tokens :
         \/ StatusOf(records', tok) = StatusOf(records, tok)
         \/ /\ tok = last'.token
            /\ last'.res = "OK"
            /\ <<StatusOf(records, tok), StatusOf(records', tok), last'.op>>
                 \in TransitionTable

\* the step asks for a change of status of an existing record that is no
\* row of the table
AsksOutsideTable(to) ==
    /\ last'.token \in DOMAIN records
    /\ <<StatusBefore, to, last'.op>> \notin TransitionTable

C8_CallNeedsCensored ==
    [][(/\ IsCall("referendumCall")
        /\ last'.token \in DOMAIN records
        /\ StatusBefore # "MDStatusCensored")
       => /\ last'.res # "OK"
          /\ AllReferendums' = AllReferendums
          /\ records' = records]_vars

\* a ReferendumCall on an unvetted record was turned away
C8_Witness ==
    /\ last.op = "referendumCall"
    /\ last.res = "NotCensored"
    /\ records[last.token].status = "MDStatusUnvetted"
    /\ last.token \notin DOMAIN AllReferendums

\* C9: a Create for a token that already has a referendum in AllReferendums
\* is rejected and the existing referendum's StartTime, EndTime and Votes
\* are not replaced or reset.
C9_OneReferendumPerToken ==
    [][(IsCall("referendumCall") /\ last'.token \in DOMAIN AllReferendums)
       => /\ last'.res # "OK"
          /\ AllReferendums'[last'.token] = RefBefore]_vars

EngineNext ==
    \/ engine.pc = "idle" /\ commitVetted
    \/ engine.pc = "idle" /\ anchorDrop
    \/ \E i \in 1..MaxCommits, failure \in Failures \cup {"none"} :
          oracleTimestamp(i, failure)
    \/ \E key \in DOMAIN oracle, tx \in Transactions, chainTime \in ChainTimes :
          oracleConfirms(key, tx, chainTime)
    \/ \E i \in 1..MaxCommits, failure \in Failures \cup {"none"} :
          oracleVerify(i, failure)
    \/ \E i \in 1..MaxCommits : confirmCommit(i)
    \/ confirmRemoveRoot
    \/ confirmSetVerified
    \/ engineRestart

EngineSpec == AnchorInit /\ [][EngineNext]_vars


\* the engine under a fair poller and an oracle that confirms what it was
\* given: a commit or a drop leaves room in the bounded log for the
\* confirmations that are due; a root that waits is submitted, a submitted
\* root is confirmed, a confirmed root gets its commit, and a confirmation
\* that began goes on unless the process stops
Room(n) == Len(gitLog) + Len(waiting) + n <= MaxCommits

Submits ==
    \E i \in 1..MaxCommits : oracleTimestamp(i, "none") /\ oracle' # oracle

Confirms ==
    \E key \in DOMAIN oracle, tx \in Transactions, chainTime \in ChainTimes :
        oracleConfirms(key, tx, chainTime)

Commits == \E i \in 1..MaxCommits : confirmCommit(i)

PollerNext ==
    \/ engine.pc = "idle" /\ Room(1) /\ commitVetted
    \/ engine.pc = "idle" /\ Room(2) /\ anchorDrop
    \/ \E i \in 1..MaxCommits, failure \in Failures \cup {"none"} :
          oracleTimestamp(i, failure)
    \/ Confirms
    \/ \E i \in 1..MaxCommits, failure \in Failures \cup {"none"} :
          oracleVerify(i, failure)
    \/ Commits
    \/ confirmRemoveRoot
    \/ confirmSetVerified
    \/ engineRestart

PollerSpec ==
    /\ AnchorInit
    /\ [][PollerNext]_vars
    /\ WF_vars(Submits)
    /\ WF_vars(Confirms)
    /\ WF_vars(Commits)
    /\ WF_vars(confirmRemoveRoot)
    /\ WF_vars(confirmSetVerified)


\* the index over every log of the marker grammar: commits of any kind are
\* appended in any order and the views are read in between
IndexNext ==
    \/ \E message \in GrammarMessages : gitCommit(message)
    \/ readIndex

IndexSpec == AnchorInit /\ [][IndexNext]_vars

\* the parsers over every anchor commit of the marker grammar
ParseInit ==
    /\ now = 0
    /\ records = EmptyMap
    /\ AllReferendums = EmptyMap
    /\ last = Reply("none", "t1", 0, "OK")
    /\ callers = [tok \in Tokens |-> {}]
    /\ tabulated = [tok \in Tokens |-> <<>>]
    /\ build \in Builds
    /\ gitLog = <<>>
    /\ lastAnchorFile = NoLastAnchor
    /\ unconfirmedFile = <<>>
    /\ anchorFiles = EmptyMap
    /\ store = EmptyMap
    /\ inventory = [b \in {"vetted", "unvetted"} |-> <<>>]
    /\ submitted = EmptyMap
    /\ wwwLast = [op |-> "none", token |-> 0, code |-> "OK", files |-> <<>>]
    /\ codecVal = NoCodecVal
    /\ db = EmptyDatabase
    /\ codecRead = <<>>
    /\ inflight = [th \in Threads |-> IdleCall]
    /\ oracle = EmptyMap
    /\ engine = IdleEngine
    /\ views = NoViews
    /\ gitOut \in AnchorLogs
    /\ parsed = NoParse

ParseNext == parseAnchor

ParseSpec == ParseInit /\ [][ParseNext]_vars

\* ---- properties of the anchor index ------------------------------------
\* git log of the vetted branch, as the index scans it
Log == getCommitsFromLog(gitLog)

\* a confirmation commit and an anchor commit, as the marker grammar has them
IsConfirmationCommit(c) == c.Message[1] = markerAnchorConfirmation

IsAnchorCommit(c) ==
    /\ Len(c.Message[1]) = 2
    /\ c.Message[1][1] = markerAnchor
    /\ ~IsConfirmationCommit(c)

\* the roots of the anchor commits, in the order of the scan
AnchorRoots ==
    LET ac == SelectSeq(Log, IsAnchorCommit)
    IN  [i \in 1..Len(ac) |-> ac[i].Message[1][2]]

\* the roots the confirmation commits name
ConfirmedRoots ==
    {Log[i].Message[3][1] :
        i \in {j \in 1..Len(Log) : IsConfirmationCommit(Log[j])}}

\* the hex spelling of the roots of the derived UnconfirmedAnchor record
DerivedUnconfirmed ==
    LET ua == readUnconfirmedAnchorRecord(build, Log)
    IN  [i \in 1..Len(ua) |-> ua[i].s]

\* C11: the derived UnconfirmedAnchors list is the roots of the anchor
\* commits without the roots that confirmation commits name, in the order
\* of the anchor commits, so it holds no root of no anchor commit
C11_UnconfirmedIsAnchorsMinusConfirmed ==
    DerivedUnconfirmed =
        SelectSeq(AnchorRoots, LAMBDA r : r \notin ConfirmedRoots)

\* the anchor listing of the log revision over a log
Listing(log) == listAnchorRecords(getCommitsFromLog(log))

\* the keys a listing gives the type Verified
VerifiedKeys(log) ==
    {Listing(log)[i].key :
        i \in {j \in 1..Len(Listing(log)) :
                 Listing(log)[j].anchor.Type = "AnchorVerified"}}

\* every listed anchor is Verified or Unverified, and Verified exactly when
\* a confirmation commit names its root
TypeFollowsConfirmation ==
    \A i \in 1..Len(Listing(gitLog)) :
        LET a == Listing(gitLog)[i]
        IN  /\ a.anchor.Type \in {"AnchorVerified", "AnchorUnverified"}
            /\ a.anchor.Type = "AnchorVerified" <=> a.key \in ConfirmedRoots

\* C12: a listed anchor is Verified exactly when some confirmation commit
\* names its root and Unverified otherwise, and an anchor once listed as
\* Verified is listed as Verified after every further commit
C12_VerifiedIffConfirmed ==
    [][/\ TypeFollowsConfirmation'
       /\ VerifiedKeys(gitLog) \subseteq VerifiedKeys(gitLog')]_vars

\* a Verified and an Unverified anchor are listed, and the newest commit is
\* not the confirmation
C12_Witness ==
    /\ VerifiedKeys(gitLog) # {}
    /\ \E i \in 1..Len(Listing(gitLog)) :
          Listing(gitLog)[i].anchor.Type = "AnchorUnverified"
    /\ ~IsConfirmationCommit(gitLog[Len(gitLog)])

\* the anchor commits of the log, the most recent first
AnchorCommitsOfLog == SelectSeq(Log, IsAnchorCommit)

\* the derived LastAnchor
DerivedLastAnchor == readLastAnchorRecord(build, Log)

\* C13: the derived LastAnchor is empty when the log holds no anchor commit,
\* and otherwise has the root and the commit time of the most recent anchor
\* commit, and for Last the first word of the line at offset 2 of its message
C13_LastAnchorOfMostRecentAnchor ==
    IF Len(AnchorCommitsOfLog) = 0
    THEN DerivedLastAnchor = NoLastAnchor
    ELSE /\ DerivedLastAnchor.Merkle.s = AnchorCommitsOfLog[1].Message[1][2]
         /\ DerivedLastAnchor.Time = AnchorCommitsOfLog[1].Time
         /\ DerivedLastAnchor.Last.s = AnchorCommitsOfLog[1].Message[3][1]

\* the anchor set of the listing as a map from key to anchor
ListedAnchors ==
    [key \in {Listing(gitLog)[i].key : i \in 1..Len(Listing(gitLog))} |->
        (CHOOSE a \in {Listing(gitLog)[i] : i \in 1..Len(Listing(gitLog))} :
            a.key = key).anchor]

\* C14: the index derived from the log after drops and confirmations
\* equals the values the engine wrote: LastAnchor with the Last = d_n of
\* the drop, the UnconfirmedAnchors list, and the anchor set with the
\* digests of the drops
C14_RederivedEqualsWritten ==
    /\ DerivedLastAnchor = lastAnchorFile
    /\ readUnconfirmedAnchorRecord(build, Log) = unconfirmedFile
    /\ ListedAnchors = anchorFiles

\* a sequence in the opposite order
Reversed(seq) == [i \in 1..Len(seq) |-> seq[Len(seq) + 1 - i]]

\* what newAnchorRecord returns for the pieces of an anchor, and for the
\* same pieces with the digests supplied in the opposite order
Remade(a) == newAnchorRecord(a.Type, a.Digests, a.Messages, a.Time)
RemadeReversed(a) ==
    newAnchorRecord(a.Type, Reversed(a.Digests), Reversed(a.Messages), a.Time)

\* C15: the Merkle root of every anchor, made by newAnchorRecord or rebuilt
\* from the log, is MerkleRoot(sort(Digests)), whatever the order in which
\* the digests were supplied, and Digests and Messages have one length
C15_MerkleOfSortedDigests ==
    /\ \A key \in DOMAIN anchorFiles :
          LET a == anchorFiles[key]
          IN  /\ Remade(a).merkle = MerkleRoot(sortDigests(a.Digests))
              /\ RemadeReversed(a).merkle = Remade(a).merkle
              /\ Len(a.Digests) = Len(a.Messages)
    /\ \A key \in DOMAIN ListedAnchors :
          LET a == ListedAnchors[key]
          IN  /\ key = hexEncodeToString(MerkleRoot(sortDigests(a.Digests)))
              /\ Len(a.Digests) = Len(a.Messages)

\* the ordinal of the commit that the LastAnchor before commit p names: the
\* first word of the first body line of the most recent anchor commit among
\* the commits before p, 0 when there is none
PreviousLast(p) ==
    LET before == {j \in 1..(p - 1) : IsAnchorCommit(gitLog[j])}
        recent == CHOOSE j \in before : \A k \in before : k <= j
        named == {j \in 1..(p - 1) :
                    hexEncodeToString(digestAt(gitLog, j))
                        = gitLog[recent].Message[3][1]}
    IN  IF before = {} \/ named = {} THEN 0
        ELSE CHOOSE j \in named : TRUE

\* the digests an anchor commit lists
ListedDigests(c) ==
    {c.Message[i][1] : i \in 3..(Len(c.Message) - 1)}

\* C16: the digests of an anchor are those of the ordinary commits of the
\* vetted branch that are newer than the previous LastAnchor.Last and
\* precede the anchor commit, all of them and no others
C16_BatchIsTheUnanchoredCommits ==
    \A p \in 1..Len(gitLog) :
        IsAnchorCommit(gitLog[p]) =>
            ListedDigests(gitLog[p])
                = {hexEncodeToString(digestAt(gitLog, j)) :
                     j \in {k \in (PreviousLast(p) + 1)..(p - 1) :
                              ordinaryCommit(gitLog[k])}}

\* ---- properties of the inventory of politeiawww ---------------------------
Branches == {"vetted", "unvetted"}

\* the records the store holds on a branch
BranchRecords(b) ==
    {store[t] : t \in {u \in DOMAIN store : branchOf(store[u].Status) = b}}

\* the records of a returned sequence
Returned(seq) == {seq[i] : i \in 1..Len(seq)}

PayloadsOf(files) == [i \in 1..Len(files) |-> files[i].Payload]

Forbidden(code, files) ==
    LET mds == SelectSeq(files, LAMBDA f : f.MIME = mimeMD)
        images == SelectSeq(files, LAMBDA f : f.MIME = mimePNG)
    IN  \/ /\ code = "ErrorStatusProposalMissingFiles"
           /\ \/ files = <<>>
              \/ ~\E i \in 1..Len(files) : files[i].Name = indexFile
        \/ /\ code = "ErrorStatusProposalDuplicateFilenames"
           /\ Cardinality({files[i].Name : i \in 1..Len(files)}) < Len(files)
        \/ code = "ErrorStatusMaxMDsExceededPolicy" /\ Len(mds) > MaxMDs
        \/ code = "ErrorStatusMaxImagesExceededPolicy" /\ Len(images) > MaxImages
        \/ /\ code = "ErrorStatusMaxMDSizeExceededPolicy"
           /\ \E i \in 1..Len(mds) : mds[i].Size > MaxMDSize
        \/ /\ code = "ErrorStatusMaxImageSizeExceededPolicy"
           /\ \E i \in 1..Len(images) : images[i].Size > MaxImageSize

ContentCodes ==
    {"ErrorStatusProposalMissingFiles", "ErrorStatusProposalDuplicateFilenames",
     "ErrorStatusMaxMDsExceededPolicy", "ErrorStatusMaxImagesExceededPolicy",
     "ErrorStatusMaxMDSizeExceededPolicy",
     "ErrorStatusMaxImageSizeExceededPolicy"}

\* the submission holds the index file and is exactly at every limit
AtEveryLimit(files) ==
    LET mds == SelectSeq(files, LAMBDA f : f.MIME = mimeMD)
        images == SelectSeq(files, LAMBDA f : f.MIME = mimePNG)
    IN  /\ Len(mds) = MaxMDs /\ Len(images) = MaxImages
        /\ \A i \in 1..Len(mds) : mds[i].Size = MaxMDSize
        /\ \A i \in 1..Len(images) : images[i].Size = MaxImageSize

OnBranchOf(op, tok) ==
    IF op = "getVetted" THEN VettedFound(tok) ELSE UnvettedFound(tok)

\* C21: getUnvetted and getVetted answer a token of their branch with the
\* current record and never with NotFound, answer every other token with
\* RecordNotFound (never an internal error or a crash), and change no state
C21_LookupFoundOrNotFound ==
    [][last'.op \in {"getUnvetted", "getVetted"} =>
          /\ OnBranchOf(last'.op, last'.token) =>
                /\ last'.res \in {"OK", "InternalError"}
                /\ last'.res = "OK" =>
                      last'.status =
                         convertBackendStatus(records[last'.token].status)
          /\ ~OnBranchOf(last'.op, last'.token) =>
                /\ last'.res = "RecordNotFound"
                /\ last'.status = "RecordStatusNotFound"
          /\ UNCHANGED <<now, records, AllReferendums>>]_vars

\* ---- properties of the database records -----------------------------------
\* the file of the record, <<>> when it has not been written
WrittenFile ==
    CASE codecVal.kind = "Anchor" ->
             IF anchorFilename(codecVal.key) \in DOMAIN db.anchors
             THEN db.anchors[anchorFilename(codecVal.key)] ELSE NoFile
      [] codecVal.kind = "LastAnchor" -> db.lastanchor
      [] codecVal.kind = "UnconfirmedAnchor" -> db.unconfirmed
      [] OTHER -> NoFile

\* the decoding of the file of the record
DecodedFile ==
    CASE codecVal.kind = "Anchor" -> DecodeAnchor(WrittenFile[1])
      [] codecVal.kind = "LastAnchor" -> DecodeLastAnchor(WrittenFile[1])
      [] codecVal.kind = "UnconfirmedAnchor" ->
             DecodeUnconfirmedAnchor(WrittenFile[1])

\* C22: for every Anchor, LastAnchor and UnconfirmedAnchor, decoding the
\* encoding that was written yields a value equal to the original, and the
\* read of a record that was written under its key returns the written value
C22_DecodeEncodeIsIdentity ==
    /\ WrittenFile # NoFile => DecodedFile = codecVal.value
    /\ (codecRead # <<>> /\ codecRead[1].written) =>
          /\ codecRead[1].err = "nil"
          /\ codecRead[1].value = codecVal.value

\* ---- properties of the interleaved referendum ------------------------------
\* two finished referendumVote calls of one identity that both found the
\* referendum open
SameVoter(a, b) ==
    /\ a # b
    /\ inflight[a].pc = "done" /\ inflight[b].pc = "done"
    /\ inflight[a].token = inflight[b].token
    /\ inflight[a].user = inflight[b].user
    /\ inflight[a].token \in DOMAIN AllReferendums
    /\ inflight[a].res \notin {"ReferendumNotFound", "ReferendumClosed"}
    /\ inflight[b].res \notin {"ReferendumNotFound", "ReferendumClosed"}

\* C23: of two CastVote calls of the same identity on the same referendum,
\* in any interleaving, at most one succeeds, the other returns AlreadyVoted,
\* and the stored vote is the one of the call that succeeded
C23_OneOfTwoVotesSucceeds ==
    \A a, b \in Threads :
        (SameVoter(a, b) /\ inflight[a].res = "OK") =>
            /\ inflight[b].res = "AlreadyVoted"
            /\ AllReferendums[inflight[a].token].Votes[inflight[a].user] =
                  inflight[a].vote

\* C30: no vote enters Votes after GetResults has tabulated: the tallies
\* persisted on the record are the counts of Approve and NotApprove in the
\* Votes of the referendum
C30_TalliesEqualFinalVotes ==
    \A tok \in Tokens :
        (/\ tok \in DOMAIN records
         /\ tok \in DOMAIN AllReferendums
         /\ records[tok].status \in FinalStatuses
         /\ records[tok].md[ReferendumVotesForMDID] # <<>>
         /\ records[tok].md[ReferendumVotesAgainstMDID] # <<>>) =>
            /\ Atoi(records[tok].md[ReferendumVotesForMDID]) =
                  CountVotes(AllReferendums[tok].Votes, "Approve")
            /\ Atoi(records[tok].md[ReferendumVotesAgainstMDID]) =
                  CountVotes(AllReferendums[tok].Votes, "NotApprove")

\* ---- properties of the anchor engine --------------------------------------
\* the roots of the unconfirmed record of the database, in hex
ListedRoots ==
    {hexEncodeToString(unconfirmedFile[i]) : i \in 1..Len(unconfirmedFile)}

\* C24: whenever the engine is between two confirmations, also after a
\* failure between the steps of one, an anchor record is Verified exactly
\* when its root is not in the unconfirmed record: none is Verified with its
\* root still listed, none is removed from the list while Unverified
C24_ConfirmationIsAtomic ==
    engine.pc = "idle" =>
        \A key \in DOMAIN anchorFiles :
            anchorFiles[key].Type = "AnchorVerified" <=> key \notin ListedRoots

\* the confirmation commits that name a root, by ordinal
ConfirmationsOf(key) ==
    {j \in 1..Len(gitLog) :
        /\ IsConfirmationCommit(gitLog[j])
        /\ gitLog[j].Message[3][1] = key}

\* a root is named by one confirmation commit and is not waited for
ConfirmedOnce(key) ==
    /\ Cardinality(ConfirmationsOf(key)) = 1
    /\ \A i \in 1..Len(DerivedUnconfirmed) : DerivedUnconfirmed[i] # key

\* the listed anchor of a root has the transaction and the chain time of
\* the confirmation commits that name the root
ChainInformationListed(key) ==
    \A j \in ConfirmationsOf(key), i \in 1..Len(Listing(gitLog)) :
        Listing(gitLog)[i].key = key =>
            /\ Listing(gitLog)[i].anchor.Transaction = gitLog[j].Message[3][2]
            /\ ToString(Listing(gitLog)[i].anchor.ChainTimestamp)
                  = gitLog[j].Message[3][3]

\* C25: a root the oracle reported confirmed is named by exactly one
\* confirmation commit of the whole log, whatever polls followed, it is no
\* longer in UnconfirmedAnchors, and its anchor has the ChainTimestamp and
\* the Transaction of that commit
C25_OneConfirmationWithChainInformation ==
    \A key \in ConfirmedRoots :
        ConfirmedOnce(key) /\ ChainInformationListed(key)

\* the step is a call of the oracle that failed or timed out
FailedCall ==
    /\ engine' # engine
    /\ engine'.call \in {"Timestamp", "Verify"}
    /\ engine'.res \in Failures

AllVerified ==
    \A i \in 1..Len(Listing(gitLog)) :
        Listing(gitLog)[i].anchor.Type = "AnchorVerified"

\* C27: under a fair poller and an oracle that confirms every submitted
\* root, whenever roots are in UnconfirmedAnchors a later state has none
\* left and every anchor Verified, whatever failed calls and restarts of the
\* process come between the drop and the confirmation
C27_EveryRootIsConfirmed ==
    (Len(waiting) > 0) ~> (Len(waiting) = 0 /\ AllVerified)

\* the anchor commits of a log that list the digest of its commit j
AnchorsListing(log, j) ==
    {p \in 1..Len(log) :
        /\ IsAnchorCommit(log[p])
        /\ hexEncodeToString(digestAt(log, j)) \in ListedDigests(log[p])}

\* the ordinary commits of a log that no anchor lists
UnanchoredCommits(log) ==
    {j \in 1..Len(log) :
        ordinaryCommit(log[j]) /\ AnchorsListing(log, j) = {}}

\* the step appends an anchor commit
DropsAnchor ==
    /\ Len(gitLog') = Len(gitLog) + 1
    /\ IsAnchorCommit(gitLog'[Len(gitLog')])

\* C28: no anchor commit lists no digest, and a step appends an anchor
\* commit, and with it changes the written LastAnchor and UnconfirmedAnchors,
\* only when the log holds an ordinary commit that no anchor lists yet
C28_DropNeedsUnanchoredCommits ==
    [][/\ \A p \in 1..Len(gitLog') :
             IsAnchorCommit(gitLog'[p]) => ListedDigests(gitLog'[p]) # {}
       /\ UnanchoredCommits(gitLog) = {} =>
             /\ ~DropsAnchor
             /\ lastAnchorFile' = lastAnchorFile
             /\ Len(unconfirmedFile') <= Len(unconfirmedFile)]_vars

\* C29: every ordinary commit is listed by one anchor at most, and when the
\* newest commit is an anchor commit every ordinary commit before it is
\* listed by exactly one anchor
C29_EachCommitInOneAnchor ==
    /\ \A j \in 1..Len(gitLog) :
          ordinaryCommit(gitLog[j]) =>
              Cardinality(AnchorsListing(gitLog, j)) <= 1
    /\ (Len(gitLog) > 0 /\ IsAnchorCommit(gitLog[Len(gitLog)])) =>
          \A j \in 1..Len(gitLog) :
              ordinaryCommit(gitLog[j]) =>
                  Cardinality(AnchorsListing(gitLog, j)) = 1

\* ---- properties of the registry, the vote values and the clock -------------
\* C31: a ReferendumCall that does not complete successfully leaves no
\* referendum registered: a token has an entry in AllReferendums only if the
\* status of its record is Referendum, VettedFinal or CensoredFinal
C31_RegisteredOnlyInReferendum ==
    \A tok \in DOMAIN AllReferendums :
        /\ tok \in DOMAIN records
        /\ records[tok].status \in {"MDStatusReferendum"} \cup FinalStatuses

\* a GetResults for a record that is not final and has no entry in
\* AllReferendums
ResultsOfUnregistered ==
    /\ IsCall("referendumResults")
    /\ last'.token \in DOMAIN records
    /\ StatusBefore \notin FinalStatuses
    /\ last'.token \notin DOMAIN AllReferendums

\* C32: a GetResults for a token that has no referendum in AllReferendums,
\* never called or lost by a restart, is rejected with ReferendumNotFound
\* and changes neither the status nor the metadata of the record
C32_ResultsNeedRegisteredReferendum ==
    [][ResultsOfUnregistered =>
          /\ last'.res = "ReferendumNotFound"
          /\ records' = records]_vars

\* the identities a CastVote of the step added to the vote map
Inserted ==
    IF IsCall("referendumVote") /\ last'.token \in DOMAIN AllReferendums
    THEN DOMAIN AllReferendums'[last'.token].Votes \ DOMAIN RefBefore.Votes
    ELSE {}

\* C33: every vote a CastVote inserts is Approve or NotApprove; a CastVote
\* that carries NullVote inserts nothing, so the only identity mapped to
\* NullVote is the creator of the referendum
C33_OnlyApproveOrNotApproveInserted ==
    [][\A u \in Inserted :
          AllReferendums'[last'.token].Votes[u] \in {"Approve", "NotApprove"}]_vars

\* the voting window of a referendum
Window(r) == <<r.startTime, r.endTime>>

\* C34: every referendum created has EndTime = StartTime + VotePeriod and
\* EndTime > StartTime, whatever the clock reads while CreateReferendum runs,
\* and no later step other than a Create changes either field
C34_WindowIsVotePeriod ==
    [][/\ \A tok \in DOMAIN AllReferendums' :
             /\ AllReferendums'[tok].endTime
                  = AllReferendums'[tok].startTime + VotePeriod
             /\ AllReferendums'[tok].endTime > AllReferendums'[tok].startTime
       /\ \A tok \in DOMAIN AllReferendums \cap DOMAIN AllReferendums' :
             ~Created =>
                 Window(AllReferendums'[tok]) = Window(AllReferendums[tok])]_vars

\* a CastVote or a GetResults of the step read the clock at or after the
\* EndTime of the registered referendum
ObservedEnd ==
    /\ IsCall("referendumVote") \/ Tabulates
    /\ last'.token \in DOMAIN AllReferendums
    /\ now >= RefBefore.endTime

\* C35: once a CastVote or a GetResults has read a current time >= EndTime
\* the registered referendum has Active = false, and after a successful
\* GetResults it has Executed = true and Active = false
C35_ClosedAndExecutedAreRecorded ==
    [][/\ ObservedEnd => ~AllReferendums'[last'.token].isActive
       /\ (/\ Tabulates
           /\ last'.res = "OK"
           /\ last'.token \in DOMAIN AllReferendums)
          => /\ AllReferendums'[last'.token].executed
             /\ ~AllReferendums'[last'.token].isActive]_vars

\* ---- properties of the classification of commits ---------------------------
\* the kind the marker grammar gives a commit
GrammarKind(c) ==
    IF IsConfirmationCommit(c) THEN "confirmation"
    ELSE IF IsAnchorCommit(c) THEN "anchor"
    ELSE "ordinary"

\* the kind the scan of a revision gives a commit: the test for a
\* confirmation comes first, the test for an anchor second
ScanKind(bld, c) ==
    IF regexAnchorConfirmation(bld, c.Message[1]) THEN "confirmation"
    ELSE IF regexAnchor(c.Message[1]) THEN "anchor"
    ELSE "ordinary"

\* the keys of the listing and the roots of UnconfirmedAnchors as read
ViewKeys == [i \in 1..Len(views.listing) |-> views.listing[i].key]
ViewUnconfirmed ==
    {views.unconfirmed[i].s : i \in 1..Len(views.unconfirmed)}

\* C36: every commit of a log of the marker grammar is an anchor commit, a
\* confirmation commit or an ordinary commit, and the listing, LastAnchor
\* and UnconfirmedAnchors take it for the same: a commit 'anchor
\* confirmation' is counted as an anchor commit by none of them, and the
\* root it confirms is the first word of the line after the blank line
C36_OneKindInEveryView ==
    views.read =>
        /\ \A i \in 1..Len(Log) :
              /\ ScanKind("log", Log[i]) = GrammarKind(Log[i])
              /\ ScanKind(build, Log[i]) = GrammarKind(Log[i])
        /\ ViewKeys = AnchorRoots
        /\ views.last.Merkle.s
             = (IF Len(AnchorRoots) = 0 THEN "" ELSE AnchorRoots[1])
        /\ ViewUnconfirmed
             = {AnchorRoots[i] : i \in 1..Len(AnchorRoots)} \ ConfirmedRoots

\* the keys the listing as read gives the type Unverified
ViewUnverifiedKeys ==
    {views.listing[i].key :
        i \in {j \in 1..Len(views.listing) :
                 views.listing[j].anchor.Type = "AnchorUnverified"}}

PrintedBody ==
    SelectSeq(SubSeq(gitOut, 6, Len(gitOut) - 1),
              LAMBDA line : stringsFields(line) # <<>>)

\* a line without the blanks at its ends
RECURSIVE Trimmed(_)
Trimmed(line) ==
    IF line = <<>> THEN line
    ELSE IF Head(line) = " " THEN Trimmed(Tail(line))
    ELSE IF line[Len(line)] = " " THEN Trimmed(SubSeq(line, 1, Len(line) - 1))
    ELSE line

\* what follows the first word of a line
Remainder(line) == Trimmed(Tail(Trimmed(line)))

\* C38: for every anchor commit of the marker grammar, one without body
\* lines included, the parsers do not fail and the index has as many
\* digests and as many messages as the commit has body lines: the i-th
\* digest is the first word of the i-th body line and the i-th message is
\* the rest of that line
C38_DigestsAndMessagesOfBodyLines ==
    parsed.ran =>
        /\ parsed.err = ""
        /\ parsed.lastErr = ""
        /\ Len(parsed.Digests) = Len(PrintedBody)
        /\ Len(parsed.Messages) = Len(PrintedBody)
        /\ \A i \in 1..Len(PrintedBody) :
              /\ parsed.Digests[i]
                   = bytesOfString(stringsFields(PrintedBody[i])[1])
              /\ parsed.Messages[i] = Remainder(PrintedBody[i])

\* ---- properties of the administrative route ---------------------------------
\* the statuses only a referendum gives a record
ReferendumStatuses == {"MDStatusReferendum"} \cup FinalStatuses

\* the step gives the record of its token a status it did not have
Becomes(status) ==
    /\ last'.token \in DOMAIN records'
    /\ records'[last'.token].status = status
    /\ last'.token \in DOMAIN records => StatusBefore # status

\* C39: the administrative SetUnvettedStatus never moves a record into
\* Referendum, VettedFinal or CensoredFinal: every requested status other
\* than NotReviewed, Public and Censored reaches the backend as Invalid and
\* is refused, so a record becomes Referendum through ReferendumCall only
\* and final through GetResults only
C39_AdminRouteStaysOutOfReferendum ==
    [][/\ IsCall("setUnvettedStatus") =>
             /\ \A status \in ReferendumStatuses : ~Becomes(status)
             /\ last'.req \notin {"RecordStatusNotReviewed",
                                  "RecordStatusPublic",
                                  "RecordStatusCensored"}
                => /\ convertFrontendStatus(last'.req) = "MDStatusInvalid"
                   /\ last'.res # "OK"
                   /\ records' = records
       /\ Becomes("MDStatusReferendum") => IsCall("referendumCall")
       /\ (\E status \in FinalStatuses : Becomes(status))
             => IsCall("referendumResults")]_vars

\* the administrator asked for Referendum on a censored record and was
\* turned away
C39_Witness ==
    /\ last.op = "setUnvettedStatus"
    /\ last.req = "RecordStatusReferendum"
    /\ last.res = "InvalidTransition"
    /\ last.token \in DOMAIN records
    /\ records[last.token].status = "MDStatusCensored"

====
